---------------------------- MODULE Spec2Model ----------------------------
(***************************************************************************)
(* A model of the Remix Vite plugin (packages/remix-dev/vite/plugin.ts).   *)
(*                                                                         *)
(* Part 1: the chunk walk (resolveDependantChunks) and the asset paths of  *)
(*         one entry (resolveBuildAssetPaths), applied to the chunk        *)
(*         manifest the client build left on disk.                         *)
(* Part 2: the production manifest (createBuildManifest), one step per     *)
(*         statement that can fail or that touches the disk.               *)
(*                                                                         *)
(* JavaScript values: `undefined` is the string Undefined; a Set is the    *)
(* sequence of its elements in insertion order; a thrown exception is a    *)
(* record [threw |-> TRUE, error |-> ...]; a path is the sequence of its   *)
(* segments until it is turned into text with PathString.                  *)
(***************************************************************************)
EXTENDS Integers, Sequences, FiniteSets, TLC

VARIABLES
    viteManifest,      \* the chunk manifest read from <assetsBuildDirectory>/.vite/manifest.json
    call,              \* the last call of resolveDependantChunks or resolveBuildAssetPaths
    result,            \* what that call returned or threw
    options,           \* the options remixVitePlugin was created with
    viteChildCompiler, \* "null" until configResolved has created the child compiler
    routeModules,      \* the route files on disk: what inspecting each one's exports gives
    pluginConfig,      \* createBuildManifest: the resolved plugin config
    buildPc,           \* createBuildManifest: the statement it is at
    entry,             \* createBuildManifest: the asset paths of the client entry
    routes,            \* createBuildManifest: the routes object, entries in insertion order
    routeQueue,        \* createBuildManifest: the route table entries the loop has left
    sourceExports,     \* createBuildManifest: the export names of the route being processed
    manifest,          \* createBuildManifest: the manifest built, then returned
    error,             \* createBuildManifest: the error it rejected with
    disk,              \* the files written so far, by path
    sha256,            \* the digests computed so far, by source text
    returned,          \* history: what the runs of createBuildManifest returned
    routesOnDisk,      \* dev server: the route table resolveConfig finds on disk now
    configVersion,     \* history: how many times the config source has changed
    previousPluginConfig, \* configureServer: the snapshot stage 1 observed last
    localsByRequest,   \* configureServer: the WeakMap from a request to its locals
    moduleGraph,       \* vite.moduleGraph: the virtual modules loaded, by resolved id
    requests,          \* the requests in flight: where each is, and its local variables
    invalidateCalls,   \* history: the calls of vite.moduleGraph.invalidateModule so far
    middlewareMode,    \* vite.config.server.middlewareMode
    cachedPluginConfig, \* the plugin's cache of the resolved config
    ws,                \* server.ws: the message sent last to the client, if any
    hotUpdate,         \* handleHotUpdate: the statement it is at, and its locals
    fileChanges,       \* history: how many file changes the watcher has reported
    resolution,        \* the bundler resolving an id: the resolveId hooks left, the result
    fixture,           \* createFixtureProject: the statement it is at, and its locals
    viteCommand,       \* viteConfigEnv.command, as the config hook kept it
    resolvedViteConfig, \* the config configResolved was given, <<>> before
    ssrBuildContext,   \* what configResolved made of it, <<>> before
    load,              \* the load hook of remix-virtual-modules: where it is, its result
    ssrViteManifest,   \* writeBundle: the manifest of the server build
    clientViteManifest, \* writeBundle: the manifest of the client build
    serverFiles,       \* the files under the server output directory, by relative path
    clientFiles,       \* the files under the client output directory, by relative path
    reconcile          \* writeBundle.handler: the statement it is at, and its locals

chunkVars == <<viteManifest, call, result>>
buildVars == <<options, viteChildCompiler, routeModules, pluginConfig, buildPc, entry,
               routes, routeQueue, sourceExports, manifest, error, disk, sha256,
               returned>>
devVars == <<routesOnDisk, configVersion, previousPluginConfig, localsByRequest,
             moduleGraph, requests, invalidateCalls, middlewareMode>>
hmrVars == <<cachedPluginConfig, ws, hotUpdate, fileChanges>>
hookVars == <<resolution>>
fixtureVars == <<fixture>>
loadVars == <<viteCommand, resolvedViteConfig, ssrBuildContext, load>>
reconcileVars == <<ssrViteManifest, clientViteManifest, serverFiles, clientFiles, reconcile>>
vars == <<chunkVars, buildVars, devVars, hmrVars, reconcileVars, hookVars, fixtureVars,
          loadVars>>

---------------------------------------------------------------------------
(* Bounds of the model *)

\* the most import references the whole chunk manifest holds
MaxImportRefs == 3
\* the most stylesheet references the whole chunk manifest holds
MaxCssRefs == 2
\* the most changes of the config source while the dev server runs
MaxConfigChanges == 2

\* the most file changes the watcher reports
MaxFileChanges == 2

---------------------------------------------------------------------------
(* JavaScript values *)

Undefined == "undefined"

Ok(v) == [threw |-> FALSE, value |-> v]
Throw(e) == [threw |-> TRUE, error |-> e]
\* a throw out of the chunk walk, after `calls` invocations of walk
ThrowIn(e, calls) == [threw |-> TRUE, error |-> e, calls |-> calls]
Error(message) == [name |-> "Error", message |-> message]

TypeErrorImports ==
    [name |-> "TypeError",
     message |-> "Cannot read properties of undefined (reading 'imports')"]
TypeErrorFile ==
    [name |-> "TypeError",
     message |-> "Cannot read properties of undefined (reading 'file')"]
RangeErrorStack ==
    [name |-> "RangeError", message |-> "Maximum call stack size exceeded"]

SeqToSet(s) == {s[i] : i \in 1..Len(s)}
NoDuplicates(s) == \A i, j \in 1..Len(s) : s[i] = s[j] => i = j

\* array.flatMap(f): the concatenation of f over the elements, in order
RECURSIVE FlatMap(_, _)
FlatMap(F(_), array) ==
    IF array = <<>> THEN <<>>
    ELSE F(Head(array)) \o FlatMap(F, Tail(array))

\* array.map(f)
MapSeq(F(_), array) == [i \in 1..Len(array) |-> F(array[i])]

\* array.join(sep) of an array of strings
RECURSIVE JoinStrings(_, _)
JoinStrings(array, sep) ==
    IF array = <<>> THEN ""
    ELSE IF Len(array) = 1 THEN array[1]
    ELSE array[1] \o sep \o JoinStrings(Tail(array), sep)

\* Set.prototype.has on a Set kept in insertion order
SetHas(set, x) == \E i \in 1..Len(set) : set[i] = x

\* Set.prototype.add: a value already in the Set keeps its place
SetAdd(set, x) == IF SetHas(set, x) THEN set ELSE Append(set, x)

\* [...new Set(array)]
RECURSIVE NewSet(_, _)
NewSet(array, set) ==
    IF array = <<>> THEN set
    ELSE NewSet(Tail(array), SetAdd(set, Head(array)))

\* the array as it is, repetitions kept
dedupeNone(array) == array
dedupe(array) == NewSet(array, <<>>)

---------------------------------------------------------------------------
(* Paths *)

\* the text of a path: its segments joined with "/"
PathString(segments) == JoinStrings(segments, "/")

\* the length of the longest common prefix of two segment sequences
RECURSIVE CommonPrefix(_, _)
CommonPrefix(a, b) ==
    IF a = <<>> \/ b = <<>> \/ Head(a) # Head(b) THEN 0
    ELSE 1 + CommonPrefix(Tail(a), Tail(b))

\* path.relative(from, to) of two absolute paths: ".." for every segment of
\* `from` below the common directory, then the rest of `to`
pathRelative(from, to) ==
    LET c == CommonPrefix(from, to)
    IN  [i \in 1..(Len(from) - c) |-> ".."] \o SubSeq(to, c + 1, Len(to))

\* path.join(dir, file) with `file` relative and free of "." and ".."
pathJoin(dir, file) == dir \o file

\* vite.normalizePath: forward slashes, "." and empty segments dropped; the
\* empty segment an absolute path begins with stays
normalizePath(segments) ==
    IF segments # <<>> /\ Head(segments) = ""
    THEN <<"">> \o SelectSeq(Tail(segments), LAMBDA s : s # "." /\ s # "")
    ELSE SelectSeq(segments, LAMBDA s : s # "." /\ s # "")

---------------------------------------------------------------------------
(* Part 1: the chunk manifest *)

\* the keys a manifest of the model may hold, in the order JSON.parse keeps
KeyOrder == <<"app/entry.client.tsx", "app/root.tsx", "_shared-9f3c.js">>
\* the order of all the keys the model knows, as JSON.parse keeps them
AllKeyOrder ==
    <<"app/entry.client.tsx", "app/root.tsx", "app/routes/_index.tsx",
      "app/routes/a.tsx", "_shared-9f3c.js">>
ChunkKeys == SeqToSet(KeyOrder)
\* an import key no chunk of the manifest has
DanglingKey == "_gone-0000.js"
ImportTargets == ChunkKeys \cup {DanglingKey}

\* the file the bundler emitted for a chunk: distinct chunks, distinct files
ChunkFile(key) ==
    CASE key = "app/entry.client.tsx" -> "assets/entry.client-1a2b.js"
      [] key = "app/root.tsx"         -> "assets/root-3c4d.js"
      [] key = "app/routes/_index.tsx" -> "assets/_index-5e6f.js"
      [] key = "app/routes/a.tsx"     -> "assets/a-7a8b.js"
      [] key = "_shared-9f3c.js"      -> "assets/shared-9f3c.js"
      [] OTHER                        -> "assets/" \o key

Stylesheets == {"assets/shared-5e6f.css", "assets/root-0d1e.css"}

\* lists without repetition over a set
DistinctSeqs(S) ==
    UNION {{s \in [1..n -> S] : NoDuplicates(s)} : n \in 1..Cardinality(S)}

\* the bundler leaves out a list that would be empty: <<>> stands for an
\* absent field
ListOrAbsent(S) == {<<>>} \cup DistinctSeqs(S)

\* one list for each key from the i-th on, `budget` references in all;
\* Choices(key) are the lists a key may have
RECURSIVE Rows(_, _, _)
Rows(Choices(_), i, budget) ==
    IF i > Len(KeyOrder) THEN {<<>>}
    ELSE UNION {{<<list>> \o rest : rest \in Rows(Choices, i + 1, budget - Len(list))} :
                  list \in {l \in Choices(KeyOrder[i]) : Len(l) <= budget}}

KeyIndex(key) == CHOOSE i \in 1..Len(KeyOrder) : KeyOrder[i] = key

\* one chunk of the manifest, as JSON.parse builds it
ManifestChunk(file, imports, css) ==
    CASE imports = <<>> /\ css = <<>> -> [file |-> file]
      [] imports # <<>> /\ css = <<>> -> [file |-> file, imports |-> imports]
      [] imports = <<>> /\ css # <<>> -> [file |-> file, css |-> css]
      [] OTHER -> [file |-> file, imports |-> imports, css |-> css]

\* every way the chunks can import each other (and the dangling key); no
\* chunk imports itself
ImportAssignments ==
    Rows(LAMBDA key : ListOrAbsent(ImportTargets \ {key}), 1, MaxImportRefs)

\* every way the chunks can list stylesheets
CssAssignments ==
    Rows(LAMBDA key : ListOrAbsent(Stylesheets), 1, MaxCssRefs)

\* Object.keys(viteManifest)
ObjectKeys(vm) == SelectSeq(AllKeyOrder, LAMBDA k : k \in DOMAIN vm)

\* viteManifest[key]: the chunk, named by its key, or undefined
Lookup(vm, key) == IF key \in DOMAIN vm THEN key ELSE Undefined

\* chunk.imports ?? [] and chunk.css ?? []
ImportsOrEmpty(vm, chunk) ==
    IF "imports" \in DOMAIN vm[chunk] THEN vm[chunk].imports ELSE <<>>
CssOrEmpty(vm, chunk) ==
    IF "css" \in DOMAIN vm[chunk] THEN vm[chunk].css ELSE <<>>

---------------------------------------------------------------------------
(* resolveDependantChunks *)

\* the deepest recursion the engine allows; a walk of an acyclic manifest
\* is never deeper than the number of its chunks
CallStackLimit == Cardinality(ChunkKeys) + 1

\* a loop that stops after the first import key
ImportsToWalkFirstOnly(vm, chunk) ==
    IF "imports" \in DOMAIN vm[chunk]
    THEN <<vm[chunk].imports[1]>>
    ELSE <<>>
\* for (let importKey of chunk.imports), when chunk.imports is truthy
ImportsToWalk(vm, chunk) ==
    IF "imports" \in DOMAIN vm[chunk] THEN vm[chunk].imports ELSE <<>>

RECURSIVE walk(_, _, _, _, _)
RECURSIVE walkImports(_, _, _, _, _)

\* a walk that adds the chunk before its imports
walkPreOrder(vm, chunk, chunks, depth, calls) ==
    IF depth > CallStackLimit THEN ThrowIn(RangeErrorStack, calls)
    ELSE IF SetHas(chunks, chunk) THEN [threw |-> FALSE, chunks |-> chunks, calls |-> calls + 1]
    ELSE IF chunk = Undefined THEN ThrowIn(TypeErrorImports, calls + 1)
    ELSE walkImports(vm, ImportsToWalk(vm, chunk),
                     SetAdd(chunks, chunk), depth, calls + 1)

\* a walk that passes over an import key the manifest does not have
walkSkippingMissing(vm, chunk, chunks, depth, calls) ==
    IF depth > CallStackLimit THEN ThrowIn(RangeErrorStack, calls)
    ELSE IF chunk = Undefined \/ SetHas(chunks, chunk)
    THEN [threw |-> FALSE, chunks |-> chunks, calls |-> calls + 1]
    ELSE LET r == walkImports(vm, ImportsToWalk(vm, chunk),
                              chunks, depth, calls + 1)
         IN  IF r.threw THEN r
             ELSE [threw |-> FALSE, chunks |-> SetAdd(r.chunks, chunk), calls |-> r.calls]

\* walk(chunk) at recursion depth `depth`, with the Set `chunks` and `calls`
\* invocations of walk so far
walk(vm, chunk, chunks, depth, calls) ==
    IF depth > CallStackLimit THEN ThrowIn(RangeErrorStack, calls)
    ELSE IF SetHas(chunks, chunk) THEN [threw |-> FALSE, chunks |-> chunks, calls |-> calls + 1]
    ELSE IF chunk = Undefined THEN ThrowIn(TypeErrorImports, calls + 1)
    ELSE LET r == walkImports(vm, ImportsToWalk(vm, chunk),
                              chunks, depth, calls + 1)
         IN  IF r.threw THEN r
             ELSE [threw |-> FALSE, chunks |-> SetAdd(r.chunks, chunk), calls |-> r.calls]

\* the for loop of walk over the import keys left
walkImports(vm, importKeys, chunks, depth, calls) ==
    IF importKeys = <<>> THEN [threw |-> FALSE, chunks |-> chunks, calls |-> calls]
    ELSE LET r == walk(vm, Lookup(vm, Head(importKeys)),
                       chunks, depth + 1, calls)
         IN  IF r.threw THEN r
             ELSE walkImports(vm, Tail(importKeys), r.chunks, depth, r.calls)

\* Array.from(chunks) after walk(entryChunk)
resolveDependantChunks(vm, entryChunk) ==
    LET r == walk(vm, entryChunk, <<>>, 1, 0)
    IN  IF r.threw THEN r ELSE [threw |-> FALSE, value |-> r.chunks, calls |-> r.calls]

---------------------------------------------------------------------------
(* resolveBuildAssetPaths *)

\* the import list of the entry chunk alone
FlatImportsOfEntryOnly(vm, chunks) ==
    ImportsOrEmpty(vm, chunks[Len(chunks)])
\* chunks.flatMap((e) => e.imports ?? [])
FlatImports(vm, chunks) == FlatMap(LAMBDA e : ImportsOrEmpty(vm, e), chunks)

\* chunks.flatMap((e) => e.css ?? [])
FlatCss(vm, chunks) == FlatMap(LAMBDA e : CssOrEmpty(vm, e), chunks)

\* the message of the error for an entry without a chunk
MissingEntryMessage(vm, manifestKey) ==
    "No manifest entry found for \"" \o manifestKey
        \o "\". Known manifest keys: "
        \o JoinStrings(MapSeq(LAMBDA key : "\"" \o key \o "\"", ObjectKeys(vm)), ", ")

\* asset paths resolved without looking whether the entry has a chunk
resolveBuildAssetPathsUnchecked(config, vm, absoluteFilePath) ==
    LET rootRelativeFilePath == pathRelative(config.rootDirectory, absoluteFilePath)
        manifestKey == PathString(normalizePath(rootRelativeFilePath))
        entryChunk == Lookup(vm, manifestKey)
    IN  IF FALSE
        THEN ThrowIn(Error(MissingEntryMessage(vm, manifestKey)), 0)
        ELSE LET r == resolveDependantChunks(vm, entryChunk)
             IN  IF r.threw THEN r
                 ELSE LET chunks == r.value
                          imported == dedupe(FlatImports(vm, chunks))
                          hrefs == dedupe(FlatCss(vm, chunks))
                      IN  IF \E i \in 1..Len(imported) : imported[i] \notin DOMAIN vm
                          THEN ThrowIn(TypeErrorFile, r.calls)
                          ELSE [threw |-> FALSE, calls |-> r.calls,
                                value |->
                                  [module |-> config.publicPath \o vm[entryChunk].file,
                                   imports |-> MapSeq(LAMBDA k : config.publicPath \o vm[k].file,
                                                      imported),
                                   css |-> MapSeq(LAMBDA href : config.publicPath \o href,
                                                  hrefs)]]
\* resolveBuildAssetPaths: asset paths, or the error thrown
resolveBuildAssetPaths(config, vm, absoluteFilePath) ==
    LET rootRelativeFilePath == pathRelative(config.rootDirectory, absoluteFilePath)
        manifestKey == PathString(normalizePath(rootRelativeFilePath))
        entryChunk == Lookup(vm, manifestKey)
    IN  IF entryChunk = Undefined
        THEN ThrowIn(Error(MissingEntryMessage(vm, manifestKey)), 0)
        ELSE LET r == resolveDependantChunks(vm, entryChunk)
             IN  IF r.threw THEN r
                 ELSE LET chunks == r.value
                          imported == dedupe(FlatImports(vm, chunks))
                          hrefs == dedupe(FlatCss(vm, chunks))
                      IN  IF \E i \in 1..Len(imported) : imported[i] \notin DOMAIN vm
                          THEN ThrowIn(TypeErrorFile, r.calls)
                          ELSE [threw |-> FALSE, calls |-> r.calls,
                                value |->
                                  [module |-> config.publicPath \o vm[entryChunk].file,
                                   imports |-> MapSeq(LAMBDA k : config.publicPath \o vm[k].file,
                                                      imported),
                                   css |-> MapSeq(LAMBDA href : config.publicPath \o href,
                                                  hrefs)]]

---------------------------------------------------------------------------
(* Part 1 as a state machine: the manifest on disk, and calls on it *)

\* the state of the plugin before anything of Part 2 has run
BuildNotStarted ==
    /\ options = [publicPath |-> "/", assetsBuildDirectory |-> <<"build", "client">>]
    /\ viteChildCompiler = "null"
    /\ routeModules = <<>>
    /\ pluginConfig = <<>>
    /\ buildPc = "idle"
    /\ entry = <<>>
    /\ routes = <<>>
    /\ routeQueue = <<>>
    /\ sourceExports = <<>>
    /\ manifest = <<>>
    /\ error = <<>>
    /\ disk = <<>>
    /\ sha256 = <<>>
    /\ returned = {}

\* the state of the dev server before configureServer has run
DevNotStarted ==
    /\ routesOnDisk = <<>>
    /\ configVersion = 0
    /\ previousPluginConfig = <<>>
    /\ localsByRequest = <<>>
    /\ moduleGraph = <<>>
    /\ requests = <<>>
    /\ invalidateCalls = 0
    /\ middlewareMode = FALSE

\* the state of the hot updates before the watcher has reported a change
HmrNotStarted ==
    /\ cachedPluginConfig = <<>>
    /\ ws = <<>>
    /\ hotUpdate = [pc |-> "idle"]
    /\ fileChanges = 0

\* the bundler has resolved no id, and no fixture is being set up
HooksNotStarted ==
    /\ resolution = [pc |-> "idle"]
    /\ fixture = [pc |-> "idle"]

\* the plugin of a dev server before any of its hooks has run
LoadNotStarted ==
    /\ viteCommand = "serve"
    /\ resolvedViteConfig = <<>>
    /\ ssrBuildContext = <<>>
    /\ load = [pc |-> "idle"]

\* the state of the build outputs before writeBundle has run
ReconcileNotStarted ==
    /\ ssrViteManifest = <<>>
    /\ clientViteManifest = <<>>
    /\ serverFiles = {}
    /\ clientFiles = {}
    /\ reconcile = [pc |-> "idle"]

RootDirectory == <<"", "project">>
AppDirectory == <<"", "project", "app">>
PublicPaths == {"/", "/build/"}

\* the files asset paths are asked for: the client entry, the root route,
\* and a route the client build emitted no chunk for
EntryFiles ==
    {<<"", "project", "app", "entry.client.tsx">>,
     <<"", "project", "app", "root.tsx">>,
     <<"", "project", "app", "routes", "a.tsx">>}

InitChunks ==
    /\ \E imp \in ImportAssignments, css \in CssAssignments :
          viteManifest = [k \in ChunkKeys |-> ManifestChunk(ChunkFile(k), imp[KeyIndex(k)], css[KeyIndex(k)])]
    /\ call = [fn |-> "none"]
    /\ result = Undefined
    /\ BuildNotStarted
    /\ DevNotStarted
    /\ ReconcileNotStarted
    /\ HooksNotStarted
    /\ HmrNotStarted
    /\ LoadNotStarted

CallResolveDependantChunks ==
    \E entryKey \in DOMAIN viteManifest :
        /\ call.fn = "none"
        /\ call' = [fn |-> "resolveDependantChunks", entry |-> entryKey]
        /\ result' = resolveDependantChunks(viteManifest, entryKey)
        /\ UNCHANGED <<devVars, reconcileVars, loadVars, hookVars, fixtureVars, hmrVars, viteManifest, buildVars>>

CallResolveBuildAssetPaths ==
    \E file \in EntryFiles, publicPath \in PublicPaths :
        LET config == [rootDirectory |-> RootDirectory, publicPath |-> publicPath]
        IN  /\ call.fn = "none"
            /\ call' = [fn |-> "resolveBuildAssetPaths", file |-> file,
                        publicPath |-> publicPath]
            /\ result' = resolveBuildAssetPaths(config, viteManifest, file)
            /\ UNCHANGED <<devVars, reconcileVars, loadVars, hookVars, fixtureVars, hmrVars, viteManifest, buildVars>>

NextChunks ==
    \/ CallResolveDependantChunks
    \/ CallResolveBuildAssetPaths

SpecChunks == InitChunks /\ [][NextChunks]_vars

---------------------------------------------------------------------------
(* Part 2: createBuildManifest *)

\* the characters of a hexadecimal digest
HexChars == <<"0", "1", "2", "3", "4", "5", "6", "7",
              "8", "9", "a", "b", "c", "d", "e", "f">>
\* the length of digest("hex") of a SHA-256 hash: 32 bytes, two characters each
Sha256HexLength == 64

\* SHA-256 is kept opaque: the first time a source text is hashed its digest
\* is any of these, and the same text has the same digest ever after
Digests ==
    {[i \in 1..Sha256HexLength |-> HexChars[((i * 7) % 16) + 1]],
     [i \in 1..Sha256HexLength |-> HexChars[((i * 11 + 5) % 16) + 1]]}

\* the text of a string kept as the sequence of its characters
HexText(chars) == JoinStrings(chars, "")

\* string.slice(0, end)
Slice0(chars, end) == SubSeq(chars, 1, IF end < Len(chars) THEN end ELSE Len(chars))

\* a hash that is never cut to maxLength
getHashUntruncated(digestOf, source, maxLength) == digestOf[source]
\* getHash(source, maxLength): maxLength is <<n>>, or <<>> when it is left out
getHash(digestOf, source, maxLength) ==
    LET hash == digestOf[source]
    IN  IF maxLength # <<>> THEN Slice0(hash, maxLength[1]) ELSE hash

\* JSON.stringify of the values a manifest holds
JsonString(str) == "\"" \o str \o "\""
JsonBoolean(b) == IF b THEN "true" ELSE "false"
JsonArray(array) == "[" \o JoinStrings(MapSeq(JsonString, array), ",") \o "]"

\* the properties of a route's manifest entry, in the order the object
\* literal sets them
RouteProperties ==
    <<"id", "parentId", "path", "index", "caseSensitive",
      "hasAction", "hasLoader", "hasErrorBoundary", "module", "imports", "css">>
EntryProperties == <<"module", "imports", "css">>

JsonProperty(object, name) ==
    JsonString(name) \o ":" \o
        (CASE name \in {"imports", "css"} -> JsonArray(object[name])
           [] name \in {"index", "caseSensitive", "hasAction", "hasLoader",
                        "hasErrorBoundary"} -> JsonBoolean(object[name])
           [] OTHER -> JsonString(object[name]))

\* JSON.stringify of an object: a property whose value is undefined is left out
JsonObject(object, properties) ==
    "{" \o JoinStrings(MapSeq(LAMBDA name : JsonProperty(object, name),
                              SelectSeq(properties, LAMBDA name : name \in DOMAIN object)),
                       ",") \o "}"

JsonRoutes(routeEntries) ==
    "{" \o JoinStrings(MapSeq(LAMBDA kv : JsonString(kv.key) \o ":"
                                            \o JsonObject(kv.value, RouteProperties),
                              routeEntries),
                       ",") \o "}"

\* JSON.stringify({ entry, routes })
StringifyFingerprinted(fingerprinted) ==
    "{\"entry\":" \o JsonObject(fingerprinted.entry, EntryProperties)
        \o ",\"routes\":" \o JsonRoutes(fingerprinted.routes) \o "}"

\* JSON.stringify(manifest)
StringifyManifest(mf) ==
    "{\"entry\":" \o JsonObject(mf.entry, EntryProperties)
        \o ",\"routes\":" \o JsonRoutes(mf.routes)
        \o ",\"url\":" \o JsonString(mf.url)
        \o ",\"version\":" \o JsonString(HexText(mf.version)) \o "}"

\* the route table resolveConfig finds on disk, in insertion order; a
\* property a route does not define is absent
RouteTable ==
    <<[key |-> "root",
       route |-> [id |-> "root", path |-> "", file |-> <<"root.tsx">>]],
      [key |-> "routes/_index",
       route |-> [id |-> "routes/_index", parentId |-> "root", index |-> TRUE,
                  file |-> <<"routes", "_index.tsx">>]],
      [key |-> "routes/a",
       route |-> [id |-> "routes/a", parentId |-> "root", path |-> "a",
                  caseSensitive |-> TRUE, file |-> <<"routes", "a.tsx">>]]>>

\* the options a plugin may be created with
Options ==
    {[publicPath |-> "/", assetsBuildDirectory |-> <<"build", "client">>],
     [publicPath |-> "/", assetsBuildDirectory |-> <<"public", "build">>],
     [publicPath |-> "/static/", assetsBuildDirectory |-> <<"build", "client">>]}

\* resolvePluginConfig: the fields createBuildManifest reads
resolvePluginConfig(opts) ==
    [rootDirectory |-> RootDirectory,
     appDirectory |-> AppDirectory,
     assetsBuildDirectory |-> pathJoin(RootDirectory, opts.assetsBuildDirectory),
     entryClientFilePath |-> pathJoin(AppDirectory, <<"entry.client.tsx">>),
     publicPath |-> opts.publicPath,
     routes |-> RouteTable]

\* resolveFileUrl
resolveFileUrl(config, filePath) ==
    LET relativePath == pathRelative(config.rootDirectory, filePath)
        isWithinRoot == relativePath = <<>> \/ relativePath[1] # ".."
    IN  IF ~isWithinRoot
        THEN "/@fs" \o PathString(normalizePath(filePath))
        ELSE "/" \o PathString(normalizePath(relativePath))

\* what can make the inspection of a route module fail
InspectionFailures == {"resolveId", "readFile", "transform"}

\* an inspection that reports no exports where it should fail
getRouteModuleExportsLenient(compiler, config, routeFile, module, failure) ==
    IF compiler # "null" /\ module.ok THEN Ok(module.exportNames) ELSE Ok(<<>>)
\* getRouteModuleExports: `module` is what the route file holds, `failure` the
\* step that fails when the module cannot be inspected
getRouteModuleExports(compiler, config, routeFile, module, failure) ==
    IF compiler = "null" THEN Throw(Error("Vite child compiler not found"))
    ELSE LET routePath == pathJoin(config.appDirectory, routeFile)
             url == resolveFileUrl(config, routePath)
         IN  IF module.ok THEN Ok(module.exportNames)
             ELSE CASE failure = "resolveId" ->
                         Throw(Error("Could not resolve module ID for " \o url))
                    [] failure = "readFile" ->
                         Throw(Error("ENOENT: no such file or directory, open '"
                                        \o PathString(routePath) \o "'"))
                    [] OTHER -> Throw(Error("Transform failed for " \o url))

\* array.includes(x)
Includes(array, x) == \E i \in 1..Len(array) : array[i] = x

\* the properties of the route table's route that the manifest copies
CopiedRouteProperties == {"id", "parentId", "path", "index", "caseSensitive"}

\* an entry whose hasLoader looks for the wrong export
RouteManifestEntryLoaderFromAction(route, exportNames, assets) ==
    [name \in CopiedRouteProperties \cap DOMAIN route |-> route[name]]
        @@ [hasAction |-> Includes(exportNames, "action"),
            hasLoader |-> Includes(exportNames, "action"),
            hasErrorBoundary |-> Includes(exportNames, "ErrorBoundary")]
        @@ assets
\* routes[key] = { id: route.id, ..., hasAction: ..., ...resolveBuildAssetPaths(...) }
RouteManifestEntry(route, exportNames, assets) ==
    [name \in CopiedRouteProperties \cap DOMAIN route |-> route[name]]
        @@ [hasAction |-> Includes(exportNames, "action"),
            hasLoader |-> Includes(exportNames, "loader"),
            hasErrorBoundary |-> Includes(exportNames, "ErrorBoundary")]
        @@ assets

\* let fingerprintedValues = { entry, routes }
FingerprintedValues(entryPaths, routeEntries) ==
    [entry |-> entryPaths, routes |-> routeEntries]

\* a fingerprint that also covers the build directory
FingerprintSourceWithDirectory(config, entryPaths, routeEntries) ==
    StringifyFingerprinted(FingerprintedValues(entryPaths, routeEntries))
        \o PathString(config.assetsBuildDirectory)
\* the text that is hashed: JSON.stringify(fingerprintedValues)
FingerprintSource(config, entryPaths, routeEntries) ==
    StringifyFingerprinted(FingerprintedValues(entryPaths, routeEntries))

\* "assets/manifest-<version>.js", as path segments
ManifestPath(version) == <<"assets", "manifest-" \o HexText(version) \o ".js">>

\* the manifest createBuildManifest returns, from the digests known
BuildManifest(config, entryPaths, routeEntries, digestOf) ==
    LET fingerprintedValues == FingerprintedValues(entryPaths, routeEntries)
        version == getHash(digestOf, FingerprintSource(config, entryPaths, routeEntries), <<8>>)
        url == config.publicPath \o PathString(ManifestPath(version))
        nonFingerprintedValues == [url |-> url, version |-> version]
    IN  fingerprintedValues @@ nonFingerprintedValues

\* an artifact that holds the fingerprinted values only
ManifestFileContentsWithoutVersion(mf) ==
    "window.__remixManifest="
        \o StringifyFingerprinted([entry |-> mf.entry, routes |-> mf.routes]) \o ";"
\* `window.__remixManifest=${JSON.stringify(manifest)};`
ManifestFileContents(mf) == "window.__remixManifest=" \o StringifyManifest(mf) \o ";"

\* writeFileSafe(file, contents): the file is created or replaced
writeFileSafe(files, file, contents) ==
    [f \in DOMAIN files \cup {file} |-> IF f = file THEN contents ELSE files[f]]

---------------------------------------------------------------------------
(* Part 2 as a state machine *)

\* the chunk manifest of a client build of the route table
ClientBuildManifest ==
    [k \in SeqToSet(AllKeyOrder) |->
        CASE k = "app/entry.client.tsx" ->
                ManifestChunk(ChunkFile(k), <<"_shared-9f3c.js">>, <<>>)
          [] k = "app/root.tsx" ->
                ManifestChunk(ChunkFile(k), <<"_shared-9f3c.js">>, <<"assets/root-0d1e.css">>)
          [] k = "app/routes/_index.tsx" ->
                ManifestChunk(ChunkFile(k), <<>>, <<>>)
          [] k = "app/routes/a.tsx" ->
                ManifestChunk(ChunkFile(k), <<"app/root.tsx", "_shared-9f3c.js">>,
                              <<"assets/shared-5e6f.css">>)
          [] OTHER ->
                ManifestChunk(ChunkFile(k), <<>>, <<"assets/shared-5e6f.css">>)]

\* that manifest, whole or with one of its chunks missing
BuildManifests ==
    {ClientBuildManifest} \cup
    {[k \in DOMAIN ClientBuildManifest \ {gone} |-> ClientBuildManifest[k]] :
        gone \in DOMAIN ClientBuildManifest}

\* what a route file may hold: a module with these exports, or one that
\* cannot be inspected
ModuleChoices(file) ==
    CASE file = "root.tsx" ->
            {[ok |-> TRUE, exportNames |-> <<"ErrorBoundary", "default", "loader">>],
             [ok |-> TRUE, exportNames |-> <<"default">>]}
      [] file = "routes/_index.tsx" ->
            {[ok |-> TRUE, exportNames |-> <<"default", "loader">>],
             [ok |-> FALSE, exportNames |-> <<>>]}
      [] OTHER ->
            {[ok |-> TRUE, exportNames |-> <<"action", "default">>],
             [ok |-> TRUE, exportNames |-> <<"default", "links">>],
             [ok |-> FALSE, exportNames |-> <<>>]}

RouteFiles == {PathString(RouteTable[i].route.file) : i \in 1..Len(RouteTable)}

\* createBuildManifest is not running
Stopped == buildPc \in {"idle", "done", "failed"}

InitBuild ==
    /\ viteManifest \in BuildManifests
    /\ call = [fn |-> "none"]
    /\ result = Undefined
    /\ options \in Options
    /\ viteChildCompiler = "null"
    /\ routeModules \in {m \in [RouteFiles -> UNION {ModuleChoices(f) : f \in RouteFiles}] :
                            \A f \in RouteFiles : m[f] \in ModuleChoices(f)}
    /\ pluginConfig = <<>>
    /\ buildPc = "idle"
    /\ entry = <<>>
    /\ routes = <<>>
    /\ routeQueue = <<>>
    /\ sourceExports = <<>>
    /\ manifest = <<>>
    /\ error = <<>>
    /\ disk = <<>>
    /\ sha256 = <<>>
    /\ returned = {}
    /\ DevNotStarted
    /\ ReconcileNotStarted
    /\ HooksNotStarted
    /\ HmrNotStarted
    /\ viteCommand = "build"
    /\ resolvedViteConfig = <<>>
    /\ ssrBuildContext = <<>>
    /\ load = [pc |-> "idle"]

\* remixVitePlugin(options): a later build creates the plugin anew, with no
\* call of its createBuildManifest under way
RemixVitePlugin ==
    /\ Stopped
    /\ options' \in Options
    /\ viteChildCompiler' = "null"
    /\ buildPc' = "idle"
    /\ pluginConfig' = <<>>
    /\ entry' = <<>>
    /\ routes' = <<>>
    /\ routeQueue' = <<>>
    /\ sourceExports' = <<>>
    /\ manifest' = <<>>
    /\ error' = <<>>
    /\ resolvedViteConfig' = <<>>
    /\ ssrBuildContext' = <<>>
    /\ UNCHANGED <<devVars, reconcileVars, hookVars, fixtureVars, hmrVars, chunkVars, routeModules, disk, sha256, returned,
                   viteCommand, load>>

\* the configs Vite may resolve: build.ssr is set for `vite build --ssr`
ViteConfigs == {[build |-> [ssr |-> ssr]] : ssr \in BOOLEAN}

\* a context that does not look at the command
SsrBuildContextWhateverCommand(viteConfig, command) ==
    IF viteConfig.build.ssr
    THEN [isSsrBuild |-> TRUE, getManifest |-> "createBuildManifest"]
    ELSE [isSsrBuild |-> FALSE]
\* viteConfig.build.ssr && viteCommand === "build"
\*     ? { isSsrBuild: true, getManifest: createBuildManifest } : { isSsrBuild: false }
SsrBuildContext(viteConfig, command) ==
    IF viteConfig.build.ssr /\ command = "build"
    THEN [isSsrBuild |-> TRUE, getManifest |-> "createBuildManifest"]
    ELSE [isSsrBuild |-> FALSE]

\* configResolved: the config is kept, the build context is set, and the
\* child compiler is created
ConfigResolved ==
    /\ Stopped
    /\ viteChildCompiler = "null"
    /\ \E viteConfig \in ViteConfigs :
          /\ resolvedViteConfig' = <<viteConfig>>
          /\ ssrBuildContext' = <<SsrBuildContext(viteConfig, viteCommand)>>
    /\ viteChildCompiler' = "server"
    /\ UNCHANGED <<devVars, reconcileVars, hookVars, fixtureVars, hmrVars, chunkVars, options, routeModules, pluginConfig, buildPc, entry, routes,
                   routeQueue, sourceExports, manifest, error, disk, sha256, returned,
                   viteCommand, load>>

\* createBuildManifest is called: let pluginConfig = await resolvePluginConfig()
CreateBuildManifest ==
    /\ Stopped
    /\ pluginConfig' = resolvePluginConfig(options)
    /\ buildPc' = "loadViteManifest"
    /\ entry' = <<>>
    /\ routes' = <<>>
    /\ routeQueue' = <<>>
    /\ sourceExports' = <<>>
    /\ manifest' = <<>>
    /\ error' = <<>>
    /\ UNCHANGED <<devVars, reconcileVars, loadVars, hookVars, fixtureVars, hmrVars, chunkVars, options, viteChildCompiler, routeModules, disk, sha256,
                   returned>>

\* let viteManifest = await loadViteManifest(pluginConfig.assetsBuildDirectory)
LoadViteManifest ==
    /\ buildPc = "loadViteManifest"
    /\ buildPc' = "entry"
    /\ UNCHANGED <<devVars, reconcileVars, loadVars, hookVars, fixtureVars, hmrVars, chunkVars, options, viteChildCompiler, routeModules, pluginConfig, entry,
                   routes, routeQueue, sourceExports, manifest, error, disk, sha256,
                   returned>>

\* let entry = resolveBuildAssetPaths(pluginConfig, viteManifest,
\* pluginConfig.entryClientFilePath); let routes = {}
ResolveEntry ==
    /\ buildPc = "entry"
    /\ LET r == resolveBuildAssetPaths(pluginConfig, viteManifest,
                                       pluginConfig.entryClientFilePath)
       IN  /\ call' = [fn |-> "resolveBuildAssetPaths",
                       file |-> pluginConfig.entryClientFilePath,
                       publicPath |-> pluginConfig.publicPath]
           /\ result' = r
           /\ IF r.threw
              THEN /\ buildPc' = "failed"
                   /\ error' = r.error
                   /\ UNCHANGED <<entry, routeQueue>>
              ELSE /\ buildPc' = "routes"
                   /\ entry' = r.value
                   /\ routeQueue' = pluginConfig.routes
                   /\ UNCHANGED error
    /\ UNCHANGED <<devVars, reconcileVars, loadVars, hookVars, fixtureVars, hmrVars, viteManifest, options, viteChildCompiler, routeModules, pluginConfig,
                   routes, sourceExports, manifest, disk, sha256, returned>>

\* for (let [key, route] of Object.entries(pluginConfig.routes)):
\* let sourceExports = await getRouteModuleExports(...)
InspectRoute ==
    /\ buildPc = "routes"
    /\ routeQueue # <<>>
    /\ \E failure \in InspectionFailures :
        LET route == Head(routeQueue).route
            r == getRouteModuleExports(viteChildCompiler, pluginConfig, route.file,
                                       routeModules[PathString(route.file)], failure)
        IN  IF r.threw
            THEN /\ buildPc' = "failed"
                 /\ error' = r.error
                 /\ UNCHANGED sourceExports
            ELSE /\ buildPc' = "routeAssets"
                 /\ sourceExports' = r.value
                 /\ UNCHANGED error
    /\ UNCHANGED <<devVars, reconcileVars, loadVars, hookVars, fixtureVars, hmrVars, chunkVars, options, viteChildCompiler, routeModules, pluginConfig, entry,
                   routes, routeQueue, manifest, disk, sha256, returned>>

\* routes[key] = { ..., ...resolveBuildAssetPaths(pluginConfig, viteManifest, routeFilePath) }
RouteAssets ==
    /\ buildPc = "routeAssets"
    /\ LET key == Head(routeQueue).key
           route == Head(routeQueue).route
           routeFilePath == pathJoin(pluginConfig.appDirectory, route.file)
           r == resolveBuildAssetPaths(pluginConfig, viteManifest, routeFilePath)
       IN  /\ call' = [fn |-> "resolveBuildAssetPaths", file |-> routeFilePath,
                       publicPath |-> pluginConfig.publicPath]
           /\ result' = r
           /\ IF r.threw
              THEN /\ buildPc' = "failed"
                   /\ error' = r.error
                   /\ UNCHANGED <<routes, routeQueue>>
              ELSE /\ buildPc' = "routes"
                   /\ routes' = Append(routes,
                                       [key |-> key,
                                        value |-> RouteManifestEntry(route, sourceExports,
                                                                     r.value)])
                   /\ routeQueue' = Tail(routeQueue)
                   /\ UNCHANGED error
    /\ UNCHANGED <<devVars, reconcileVars, loadVars, hookVars, fixtureVars, hmrVars, viteManifest, options, viteChildCompiler, routeModules, pluginConfig,
                   entry, sourceExports, manifest, disk, sha256, returned>>

\* the loop is over: version, url and the manifest object
Fingerprint ==
    /\ buildPc = "routes"
    /\ routeQueue = <<>>
    /\ LET source == FingerprintSource(pluginConfig, entry, routes)
       IN  \E digest \in (IF source \in DOMAIN sha256 THEN {sha256[source]} ELSE Digests) :
              LET digestOf == [t \in DOMAIN sha256 \cup {source} |->
                                 IF t = source THEN digest ELSE sha256[t]]
              IN  /\ sha256' = digestOf
                  /\ manifest' = BuildManifest(pluginConfig, entry, routes, digestOf)
    /\ buildPc' = "write"
    /\ UNCHANGED <<devVars, reconcileVars, loadVars, hookVars, fixtureVars, hmrVars, chunkVars, options, viteChildCompiler, routeModules, pluginConfig, entry,
                   routes, routeQueue, sourceExports, error, disk, returned>>

\* await writeFileSafe(path.join(pluginConfig.assetsBuildDirectory, manifestPath), ...);
\* return manifest
WriteManifest ==
    /\ buildPc = "write"
    /\ disk' = writeFileSafe(disk,
                             PathString(pathJoin(pluginConfig.assetsBuildDirectory,
                                                 ManifestPath(manifest.version))),
                             ManifestFileContents(manifest))
    /\ returned' = returned \cup {[manifest |-> manifest, pluginConfig |-> pluginConfig]}
    /\ buildPc' = "done"
    /\ UNCHANGED <<devVars, reconcileVars, loadVars, hookVars, fixtureVars, hmrVars, chunkVars, options, viteChildCompiler, routeModules, pluginConfig, entry,
                   routes, routeQueue, sourceExports, manifest, error, sha256>>

NextBuild ==
    \/ RemixVitePlugin
    \/ ConfigResolved
    \/ CreateBuildManifest
    \/ LoadViteManifest
    \/ ResolveEntry
    \/ InspectRoute
    \/ RouteAssets
    \/ Fingerprint
    \/ WriteManifest

SpecBuild == InitBuild /\ [][NextBuild]_vars

---------------------------------------------------------------------------
(* Part 3: the dev server (configureServer): virtual modules and config *)

\* VirtualModule.id(name), VirtualModule.resolve(id)
VirtualModuleId(name) == "virtual:" \o name
VirtualModuleResolve(id) == "\\0" \o id

serverEntryId == VirtualModuleId("server-entry")
serverManifestId == VirtualModuleId("server-manifest")
browserManifestId == VirtualModuleId("browser-manifest")
remixReactProxyId == VirtualModuleId("remix-react-proxy")
hmrRuntimeId == VirtualModuleId("hmr-runtime")
injectHmrRuntimeId == VirtualModuleId("inject-hmr-runtime")

\* let vmods = [serverEntryId, serverManifestId, browserManifestId]
vmods == <<serverEntryId, serverManifestId, browserManifestId>>

\* the virtual modules a browser asks the dev server for
BrowserModuleIds ==
    {browserManifestId, remixReactProxyId, injectHmrRuntimeId, hmrRuntimeId}

\* the route tables resolveConfig may find on disk: with and without the
\* route file routes/a.tsx
DevRouteTables == {RouteTable, SubSeq(RouteTable, 1, 2)}

\* the options of the dev server's plugin: devLoadContext is a function
DevOptions ==
    [publicPath |-> "/", assetsBuildDirectory |-> <<"build", "client">>,
     devLoadContext |-> "function getLoadContext"]

\* resolvePluginConfig in the dev server: the whole object it returns
resolveDevPluginConfig(opts, routeTable) ==
    [appDirectory |-> AppDirectory,
     rootDirectory |-> RootDirectory,
     assetsBuildDirectory |-> pathJoin(RootDirectory, opts.assetsBuildDirectory),
     entryClientFilePath |-> pathJoin(AppDirectory, <<"entry.client.tsx">>),
     publicPath |-> opts.publicPath,
     routes |-> routeTable,
     entryServerFilePath |-> pathJoin(AppDirectory, <<"entry.server.tsx">>),
     serverBuildPath |-> pathJoin(RootDirectory, <<"build", "server", "index.js">>),
     serverModuleFormat |-> "esm",
     relativeAssetsBuildDirectory |-> opts.assetsBuildDirectory,
     future |-> [v3_fetcherPersist |-> FALSE],
     devLoadContext |-> opts.devLoadContext]

\* JSON.stringify of a route of the config
JsonConfigRoute(route) ==
    JsonObject([name \in DOMAIN route |->
                   IF name = "file" THEN PathString(route.file) ELSE route[name]],
               <<"id", "parentId", "path", "index", "caseSensitive", "file">>)

JsonConfigRoutes(routeTable) ==
    "{" \o JoinStrings(MapSeq(LAMBDA kv : JsonString(kv.key) \o ":"
                                            \o JsonConfigRoute(kv.route),
                              routeTable),
                       ",") \o "}"

\* a comparison that looks at the options only
StringifyConfigWithoutRoutes(config) ==
    "{\"publicPath\":" \o JsonString(config.publicPath) \o "}"
\* JSON.stringify(pluginConfig): a property whose value is undefined or a
\* function is left out
StringifyConfig(config) ==
         "{\"appDirectory\":" \o JsonString(PathString(config.appDirectory))
         \o ",\"rootDirectory\":" \o JsonString(PathString(config.rootDirectory))
         \o ",\"assetsBuildDirectory\":"
         \o JsonString(PathString(config.assetsBuildDirectory))
         \o ",\"entryClientFilePath\":"
         \o JsonString(PathString(config.entryClientFilePath))
         \o ",\"publicPath\":" \o JsonString(config.publicPath)
         \o ",\"routes\":" \o JsonConfigRoutes(config.routes)
         \o ",\"entryServerFilePath\":"
         \o JsonString(PathString(config.entryServerFilePath))
         \o ",\"serverBuildPath\":" \o JsonString(PathString(config.serverBuildPath))
         \o ",\"serverModuleFormat\":" \o JsonString(config.serverModuleFormat)
         \o ",\"relativeAssetsBuildDirectory\":"
         \o JsonString(PathString(config.relativeAssetsBuildDirectory))
         \o ",\"future\":{\"v3_fetcherPersist\":"
         \o JsonBoolean(config.future.v3_fetcherPersist) \o "}}"

\* the keys of the routes of a config
RouteKeys(routeTable) == [i \in 1..Len(routeTable) |-> routeTable[i].key]

\* the module ssrLoadModule(serverEntryId) evaluates: what getServerEntry
\* writes from the config it resolves; generatedUnder is history, the
\* version of the config source it was written under
ServerEntryModule(config, version) ==
    [assetsBuildDirectory |-> PathString(config.relativeAssetsBuildDirectory),
     future |-> config.future,
     publicPath |-> config.publicPath,
     routes |-> RouteKeys(config.routes),
     generatedUnder |-> version]

\* the server manifest module in the dev server: what getDevManifest returns
DevManifestModule(config, version) ==
    [url |-> "/@id/__x00__" \o browserManifestId,
     routes |-> RouteKeys(config.routes),
     generatedUnder |-> version]

\* a module of the graph: `loaded` holds what was loaded, and is empty once
\* the module has been invalidated
LoadedModule(content) == [loaded |-> <<content>>]
invalidateModule(mod) == [mod EXCEPT !.loaded = <<>>]

\* vite.moduleGraph.getModuleById(id)
getModuleById(graph, id) == IF id \in DOMAIN graph THEN <<graph[id]>> ELSE <<>>

\* vmods.forEach((vmod) => { let mod = ...; if (mod) invalidateModule(mod) })
InvalidateAll(graph, ids) ==
    [id \in DOMAIN graph |->
        IF \E i \in 1..Len(ids) : VirtualModuleResolve(ids[i]) = id
        THEN invalidateModule(graph[id]) ELSE graph[id]]

\* a previous snapshot that is never there to compare with
StringifyPreviousLost(previous) == Undefined
\* JSON.stringify(previousPluginConfig), which is undefined before the first
\* request: `previous` is <<>> then, and <<config>> after
StringifyPrevious(previous) ==
    IF previous = <<>> THEN Undefined ELSE StringifyConfig(previous[1])

\* how many modules that pass invalidates
InvalidateAllCalls(graph, ids) ==
    Cardinality({i \in 1..Len(ids) : VirtualModuleResolve(ids[i]) \in DOMAIN graph})

\* getStylesForUrl(vite, pluginConfig, cssModulesManifest, build, url): the
\* styles of the route of the build that the url matches, if any
UrlRoute(url) == IF url = "/a" THEN "routes/a" ELSE "routes/_index"
getStylesForUrl(build, url) ==
    IF Includes(build.routes, UrlRoute(url))
    THEN "/* styles of " \o UrlRoute(url) \o " */" ELSE Undefined

\* invariant(value, message): `value` is <<>> for undefined, <<v>> for v
invariant(value, message) ==
    IF value = <<>> THEN Throw(Error(message)) ELSE Ok(value[1])

---------------------------------------------------------------------------
(* Part 3 as a state machine: requests through the two middlewares *)

\* the requests in flight, their urls and their response objects: the
\* response of an Express server has a `locals` object
Requests == {"r1", "r2"}
RequestUrl(r) == IF r = "r1" THEN "/a" ELSE "/"
RequestRes(r) == IF r = "r1" THEN [locals |-> <<>>] ELSE [statusCode |-> 200]

NewRequest(r) ==
    [pc |-> "arrived", url |-> RequestUrl(r), res |-> RequestRes(r),
     pluginConfig |-> <<>>, resolvedAt |-> 0, build |-> <<>>,
     criticalCss |-> Undefined, stage2Config |-> <<>>,
     next |-> <<>>, handle |-> <<>>, failedIn |-> "none", nextCalls |-> <<>>]

\* what a failing step rejects with
StepError(step) == Error(step \o " failed")

\* a call of next by a middleware: `arguments` is <<>> for next() and <<e>>
\* for next(e); a request keeps the calls made for it in nextCalls
NextCall(stage, arguments) == [by |-> stage, arguments |-> arguments]

\* a catch that passes the error on and lets the request go on
NextErrorAndOn(req, e, stage) ==
    [req EXCEPT !.pc = "stage2", !.next = <<e>>, !.failedIn = stage,
                !.nextCalls = Append(@, NextCall(stage, <<e>>))]
\* a catch followed by a next() that is called whatever happened
NextErrorThenNext(req, e, stage) ==
    [req EXCEPT !.pc = "error", !.next = <<e>>, !.failedIn = stage,
                !.nextCalls = @ \o <<NextCall(stage, <<e>>), NextCall(stage, <<>>)>>]
\* catch (error) { next(error) }
NextError(req, e, stage) ==
    [req EXCEPT !.pc = "error", !.next = <<e>>, !.failedIn = stage,
                !.nextCalls = Append(@, NextCall(stage, <<e>>))]

InitDev ==
    /\ viteManifest = <<>>
    /\ call = [fn |-> "none"]
    /\ result = Undefined
    /\ options = DevOptions
    /\ viteChildCompiler = "server"
    /\ routeModules = <<>>
    /\ pluginConfig = <<>>
    /\ buildPc = "idle"
    /\ entry = <<>>
    /\ routes = <<>>
    /\ routeQueue = <<>>
    /\ sourceExports = <<>>
    /\ manifest = <<>>
    /\ error = <<>>
    /\ disk = <<>>
    /\ sha256 = <<>>
    /\ returned = {}
    /\ routesOnDisk = RouteTable
    /\ configVersion = 0
    /\ previousPluginConfig = <<>>
    /\ localsByRequest = <<>>
    /\ moduleGraph = <<>>
    /\ requests = [r \in Requests |-> NewRequest(r)]
    /\ invalidateCalls = 0
    /\ middlewareMode \in BOOLEAN
    /\ ReconcileNotStarted
    /\ HooksNotStarted
    /\ HmrNotStarted
    /\ LoadNotStarted

\* a route file is added or removed while the dev server runs
ConfigSourceChanges ==
    /\ configVersion < MaxConfigChanges
    /\ routesOnDisk' \in DevRouteTables \ {routesOnDisk}
    /\ configVersion' = configVersion + 1
    /\ UNCHANGED <<chunkVars, buildVars, reconcileVars, loadVars, hookVars, fixtureVars, hmrVars, previousPluginConfig,
                   localsByRequest, moduleGraph, requests, invalidateCalls, middlewareMode>>

\* a browser loads a page of the app: it asks for the browser manifest, the
\* UI-library proxy and the hot-reload runtime injector, which imports the
\* hot-reload runtime (resolveId and load of the plugins that own them); a
\* module that is loaded in the graph is not loaded again
BrowserLoadsPage ==
    LET config == resolveDevPluginConfig(options, routesOnDisk)
        content(m) == IF m = browserManifestId
                      THEN DevManifestModule(config, configVersion)
                      ELSE [source |-> m]
        stale(m) == IF VirtualModuleResolve(m) \in DOMAIN moduleGraph
                    THEN moduleGraph[VirtualModuleResolve(m)].loaded = <<>>
                    ELSE TRUE
    IN  /\ \E m \in BrowserModuleIds : stale(m)
        /\ moduleGraph' =
              [n \in DOMAIN moduleGraph
                        \cup {VirtualModuleResolve(m) : m \in BrowserModuleIds} |->
                  IF \E m \in BrowserModuleIds : n = VirtualModuleResolve(m) /\ stale(m)
                  THEN LoadedModule(content(CHOOSE m \in BrowserModuleIds :
                                                n = VirtualModuleResolve(m)))
                  ELSE moduleGraph[n]]
        /\ UNCHANGED <<chunkVars, buildVars, reconcileVars, loadVars, hookVars, fixtureVars, hmrVars, routesOnDisk, configVersion,
                       previousPluginConfig, localsByRequest, requests, invalidateCalls,
                       middlewareMode>>

\* stage 1: let pluginConfig = await resolvePluginConfig()
Stage1Resolve ==
    \E r \in DOMAIN requests, ok \in BOOLEAN :
        /\ requests[r].pc = "arrived"
        /\ requests' =
              [requests EXCEPT ![r] =
                  IF ok
                  THEN [@ EXCEPT !.pc = "compare",
                                 !.pluginConfig = resolveDevPluginConfig(options, routesOnDisk),
                                 !.resolvedAt = configVersion]
                  ELSE NextError(@, StepError("resolvePluginConfig"), "stage1")]
        /\ UNCHANGED <<chunkVars, buildVars, reconcileVars, loadVars, hookVars, fixtureVars, hmrVars, routesOnDisk, configVersion,
                       previousPluginConfig, localsByRequest, moduleGraph, invalidateCalls,
                       middlewareMode>>

\* a stage 1 that compares with the cache the hot updates refresh
Stage1CompareSharedCache ==
    \E r \in DOMAIN requests :
        /\ requests[r].pc = "compare"
        /\ IF StringifyConfig(requests[r].pluginConfig) # StringifyPrevious(cachedPluginConfig)
           THEN /\ cachedPluginConfig' = <<requests[r].pluginConfig>>
                /\ moduleGraph' = InvalidateAll(moduleGraph, vmods)
                /\ invalidateCalls' = invalidateCalls + InvalidateAllCalls(moduleGraph, vmods)
           ELSE UNCHANGED <<cachedPluginConfig, moduleGraph, invalidateCalls>>
        /\ requests' = [requests EXCEPT ![r].pc = "load"]
        /\ UNCHANGED <<chunkVars, buildVars, reconcileVars, loadVars, hookVars, fixtureVars, routesOnDisk, configVersion,
                       previousPluginConfig, localsByRequest, middlewareMode, ws, hotUpdate,
                       fileChanges>>
\* stage 1: if the snapshot differs from the previous one, keep it and
\* invalidate the virtual modules; then ask for the server build
Stage1Compare ==
    \E r \in DOMAIN requests :
        /\ requests[r].pc = "compare"
        /\ IF StringifyConfig(requests[r].pluginConfig) # StringifyPrevious(previousPluginConfig)
           THEN /\ previousPluginConfig' = <<requests[r].pluginConfig>>
                /\ moduleGraph' = InvalidateAll(moduleGraph, vmods)
                /\ invalidateCalls' = invalidateCalls + InvalidateAllCalls(moduleGraph, vmods)
           ELSE UNCHANGED <<previousPluginConfig, moduleGraph, invalidateCalls>>
        /\ requests' = [requests EXCEPT ![r].pc = "load"]
        /\ UNCHANGED <<chunkVars, buildVars, reconcileVars, loadVars, hookVars, fixtureVars, hmrVars, routesOnDisk, configVersion,
                       localsByRequest, middlewareMode>>

\* vite.ssrLoadModule(serverEntryId): the module of the graph if it is
\* loaded, else the module is generated by getServerEntry from the config
\* resolved now, and with it the server manifest module it imports
ssrLoadModule(graph, opts, routeTable, version) ==
    LET entryNode == VirtualModuleResolve(serverEntryId)
        manifestNode == VirtualModuleResolve(serverManifestId)
        config == resolveDevPluginConfig(opts, routeTable)
        isLoaded(n) == IF n \in DOMAIN graph THEN graph[n].loaded # <<>> ELSE FALSE
    IN  IF isLoaded(entryNode) THEN graph
        ELSE [n \in DOMAIN graph \cup {entryNode, manifestNode} |->
                 IF n = entryNode THEN LoadedModule(ServerEntryModule(config, version))
                 ELSE IF n = manifestNode /\ ~isLoaded(n)
                      THEN LoadedModule(DevManifestModule(config, version))
                      ELSE graph[n]]

\* stage 1: let build = await vite.ssrLoadModule(serverEntryId)
Stage1Load ==
    \E r \in DOMAIN requests, ok \in BOOLEAN :
        /\ requests[r].pc = "load"
        /\ IF ok
           THEN LET graph == ssrLoadModule(moduleGraph, options, routesOnDisk, configVersion)
                IN  /\ moduleGraph' = graph
                    /\ requests' =
                          [requests EXCEPT
                              ![r].pc = "styles",
                              ![r].build = graph[VirtualModuleResolve(serverEntryId)].loaded]
           ELSE /\ requests' = [requests EXCEPT
                                   ![r] = NextError(@, StepError("ssrLoadModule"), "stage1")]
                /\ UNCHANGED moduleGraph
        /\ UNCHANGED <<chunkVars, buildVars, reconcileVars, loadVars, hookVars, fixtureVars, hmrVars, routesOnDisk, configVersion,
                       previousPluginConfig, localsByRequest, invalidateCalls, middlewareMode>>

\* a set that records nothing
localsSetNowhere(locals, req, value) == locals
\* localsByRequest.set(req, value)
localsSet(locals, req, value) ==
    [k \in DOMAIN locals \cup {req} |-> IF k = req THEN value ELSE locals[k]]

\* a lookup that does not look at the request
localsGetAny(locals, req) ==
    IF DOMAIN locals = {} THEN <<>> ELSE <<locals[CHOOSE k \in DOMAIN locals : TRUE]>>
\* localsByRequest.get(req): <<>> for undefined
localsGet(locals, req) == IF req \in DOMAIN locals THEN <<locals[req]>> ELSE <<>>

\* stage 1: let criticalCss = await getStylesForUrl(...); the locals are
\* recorded, the response of an Express server is given the styles, next()
Stage1Styles ==
    \E r \in DOMAIN requests, ok \in BOOLEAN :
        /\ requests[r].pc = "styles"
        /\ IF ok
           THEN LET build == requests[r].build[1]
                    criticalCss == getStylesForUrl(build, requests[r].url)
                    res == requests[r].res
                IN  /\ localsByRequest' =
                          localsSet(localsByRequest, r,
                                    [build |-> build, criticalCss |-> criticalCss])
                    /\ requests' =
                          [requests EXCEPT
                              ![r].pc = "stage2",
                              ![r].criticalCss = criticalCss,
                              ![r].res = IF "locals" \in DOMAIN res
                                         THEN [res EXCEPT !.locals =
                                                 [__remixDevCriticalCss |-> criticalCss]]
                                         ELSE res,
                              ![r].next = <<"next()">>,
                              ![r].nextCalls = Append(@, NextCall("stage1", <<>>))]
           ELSE /\ requests' = [requests EXCEPT
                                   ![r] = NextError(@, StepError("getStylesForUrl"), "stage1")]
                /\ UNCHANGED localsByRequest
        /\ UNCHANGED <<chunkVars, buildVars, reconcileVars, loadVars, hookVars, fixtureVars, hmrVars, routesOnDisk, configVersion,
                       previousPluginConfig, moduleGraph, invalidateCalls, middlewareMode>>

\* a stage 2 that is registered whatever the mode of the server
Stage2ResolveAnyMode ==
    \E r \in DOMAIN requests, ok \in BOOLEAN :
        /\ requests[r].pc \in {"arrived", "stage2"}
        /\ requests' =
              [requests EXCEPT ![r] =
                  IF ok
                  THEN [@ EXCEPT !.pc = "locals",
                                 !.stage2Config = resolveDevPluginConfig(options, routesOnDisk)]
                  ELSE NextError(@, StepError("resolvePluginConfig"), "stage2")]
        /\ UNCHANGED <<chunkVars, buildVars, reconcileVars, loadVars, hookVars, fixtureVars, hmrVars, routesOnDisk, configVersion,
                       previousPluginConfig, localsByRequest, moduleGraph, invalidateCalls,
                       middlewareMode>>
\* stage 2, registered unless the server runs in middleware mode: let
\* pluginConfig = await resolvePluginConfig(). The middleware is handed a
\* request that stage 1 passed on, or one that stage 1 has not seen
Stage2Resolve ==
    \E r \in DOMAIN requests, ok \in BOOLEAN :
        /\ ~middlewareMode
        /\ requests[r].pc \in {"arrived", "stage2"}
        /\ requests' =
              [requests EXCEPT ![r] =
                  IF ok
                  THEN [@ EXCEPT !.pc = "locals",
                                 !.stage2Config = resolveDevPluginConfig(options, routesOnDisk)]
                  ELSE NextError(@, StepError("resolvePluginConfig"), "stage2")]
        /\ UNCHANGED <<chunkVars, buildVars, reconcileVars, loadVars, hookVars, fixtureVars, hmrVars, routesOnDisk, configVersion,
                       previousPluginConfig, localsByRequest, moduleGraph, invalidateCalls,
                       middlewareMode>>

\* stage 2 as the middleware chain calls it: the first middleware was given
\* the request before, and has called next() for it
Stage2ResolveAfterNext ==
    \E r \in DOMAIN requests, ok \in BOOLEAN :
        /\ ~middlewareMode
        /\ requests[r].pc = "stage2"
        /\ requests' =
              [requests EXCEPT ![r] =
                  IF ok
                  THEN [@ EXCEPT !.pc = "locals",
                                 !.stage2Config = resolveDevPluginConfig(options, routesOnDisk)]
                  ELSE NextError(@, StepError("resolvePluginConfig"), "stage2")]
        /\ UNCHANGED <<chunkVars, buildVars, reconcileVars, loadVars, hookVars, fixtureVars, hmrVars, routesOnDisk, configVersion,
                       previousPluginConfig, localsByRequest, moduleGraph, invalidateCalls,
                       middlewareMode>>

\* a stage 2 that calls the handler whether or not locals were found
Stage2LocalsUnchecked(locals, req) ==
    LET found == localsGet(locals, req)
    IN  Ok(IF found = <<>> THEN [build |-> <<>>, criticalCss |-> Undefined]
           ELSE found[1])
\* stage 2: let locals = localsByRequest.get(req); invariant(locals, ...)
Stage2Locals(locals, req) ==
    invariant(localsGet(locals, req), "No Remix locals found for request")

\* stage 2: the locals are read and handed to the request handler
Stage2Handle ==
    \E r \in DOMAIN requests, ok \in BOOLEAN :
        /\ requests[r].pc = "locals"
        /\ LET locals == Stage2Locals(localsByRequest, r)
           IN  requests' =
                 [requests EXCEPT ![r] =
                    IF locals.threw THEN NextError(@, locals.error, "stage2")
                    ELSE LET handled ==
                                [@ EXCEPT !.pc = "handled",
                                          !.handle =
                                             <<[build |-> locals.value.build,
                                                criticalCss |-> locals.value.criticalCss,
                                                loadContext |->
                                                   requests[r].stage2Config.devLoadContext]>>]
                         IN  IF ok THEN handled
                             ELSE NextError(handled, StepError("handle"), "stage2")]
        /\ UNCHANGED <<chunkVars, buildVars, reconcileVars, loadVars, hookVars, fixtureVars, hmrVars, routesOnDisk, configVersion,
                       previousPluginConfig, localsByRequest, moduleGraph, invalidateCalls,
                       middlewareMode>>

NextDev ==
    \/ ConfigSourceChanges
    \/ BrowserLoadsPage
    \/ Stage1Resolve
    \/ Stage1Compare
    \/ Stage1Load
    \/ Stage1Styles
    \/ Stage2Resolve
    \/ Stage2Handle

SpecDev == InitDev /\ [][NextDev]_vars

\* the dev server with its middlewares called in the order of the chain
NextDevChain ==
    \/ ConfigSourceChanges
    \/ BrowserLoadsPage
    \/ Stage1Resolve
    \/ Stage1Compare
    \/ Stage1Load
    \/ Stage1Styles
    \/ Stage2ResolveAfterNext
    \/ Stage2Handle

SpecDevChain == InitDev /\ [][NextDevChain]_vars

---------------------------------------------------------------------------
(* Part 4: writeBundle.handler, which moves the assets of the server build *)

\* cachedPluginConfig when writeBundle is called
ReconcileConfig ==
    resolveDevPluginConfig([publicPath |-> "/", assetsBuildDirectory |-> <<"build", "client">>,
                            devLoadContext |-> Undefined],
                           RouteTable)

\* path.dirname(path)
pathDirname(p) == SubSeq(p, 1, Len(p) - 1)

\* the files the builds emit, as paths relative to the output directory
AssetA == <<"assets", "a-1111.png">>
AssetB == <<"assets", "b-2222.png">>
AssetC == <<"assets", "c-3333.svg">>
CssRoot == <<"assets", "root-4444.css">>
CssShared == <<"assets", "shared-5555.css">>
ServerBundle == <<"index.js">>

\* a chunk of a manifest: a list the chunk does not have is absent
AssetChunk(assets, css) ==
    CASE assets = <<>> /\ css = <<>> -> [file |-> "chunk.js"]
      [] assets = <<>> -> [file |-> "chunk.js", css |-> css]
      [] css = <<>> -> [file |-> "chunk.js", assets |-> assets]
      [] OTHER -> [file |-> "chunk.js", assets |-> assets, css |-> css]

\* the manifest of the server build: Object.values order is the order here
SsrManifest ==
    <<AssetChunk(<<AssetA, AssetB>>, <<>>),
      AssetChunk(<<AssetB, AssetC>>, <<CssRoot>>),
      AssetChunk(<<>>, <<CssRoot, CssShared>>),
      AssetChunk(<<>>, <<>>)>>

\* the manifests the client build may have left
ClientManifests ==
    {<<AssetChunk(<<AssetB>>, <<CssRoot>>)>>,
     <<AssetChunk(<<AssetB, AssetC>>, <<CssRoot, CssShared>>), AssetChunk(<<>>, <<>>)>>,
     <<AssetChunk(<<>>, <<>>)>>}

\* chunk.assets ?? [], chunk.css ?? []
AssetsOrEmpty(chunk) == IF "assets" \in DOMAIN chunk THEN chunk.assets ELSE <<>>
ChunkCssOrEmpty(chunk) == IF "css" \in DOMAIN chunk THEN chunk.css ELSE <<>>

\* new Set(Object.values(manifest).flatMap((chunk) => chunk.assets ?? []))
AssetPaths(chunks) == dedupe(FlatMap(AssetsOrEmpty, chunks))

\* stylesheets removed only when the client build has them as well
CssPathsAlsoInClient(ssrChunks, clientChunks) ==
    SelectSeq(FlatMap(ChunkCssOrEmpty, ssrChunks),
              LAMBDA css : Includes(FlatMap(ChunkCssOrEmpty, clientChunks), css))
\* Object.values(ssrViteManifest).flatMap((chunk) => chunk.css ?? [])
CssPaths(ssrChunks, clientChunks) == FlatMap(ChunkCssOrEmpty, ssrChunks)

\* the file of a path under a directory, as text
FileIn(dir, relativePath) == PathString(pathJoin(dir, relativePath))

\* a move that replaces the file at dest
fseMoveOverwriting(files, src, dest) ==
    IF src \notin files
    THEN Throw(Error("ENOENT: no such file or directory, lstat '" \o src \o "'"))
    ELSE Ok((files \ {src}) \cup {dest})
\* fse.move(src, dest) on the set of files that exist: it throws when src
\* does not exist or dest does
fseMove(files, src, dest) ==
    IF src \notin files
    THEN Throw(Error("ENOENT: no such file or directory, lstat '" \o src \o "'"))
    ELSE IF dest \in files THEN Throw(Error("dest already exists."))
    ELSE Ok((files \ {src}) \cup {dest})

\* fse.remove(path): nothing happens when the path does not exist
fseRemove(files, file) == Ok(files \ {file})

\* an asset that is copied to the client directory and left in place
reconcileAssetCopy(files, clientAssetPaths, serverBuildDir, assetsBuildDirectory, ssrAssetPath) ==
    LET src == FileIn(serverBuildDir, ssrAssetPath)
        dest == FileIn(assetsBuildDirectory, ssrAssetPath)
    IN  [threw |-> FALSE, value |-> files \cup {dest},
         moved |-> IF Includes(clientAssetPaths, ssrAssetPath) THEN <<>> ELSE <<dest>>]
\* the body of the loop over ssrAssetPaths
reconcileAsset(files, clientAssetPaths, serverBuildDir, assetsBuildDirectory, ssrAssetPath) ==
    LET src == FileIn(serverBuildDir, ssrAssetPath)
    IN  IF ~Includes(clientAssetPaths, ssrAssetPath)
        THEN LET dest == FileIn(assetsBuildDirectory, ssrAssetPath)
                 r == fseMove(files, src, dest)
             IN  IF r.threw THEN r
                 ELSE [threw |-> FALSE, value |-> r.value, moved |-> <<dest>>]
        ELSE [threw |-> FALSE, value |-> fseRemove(files, src).value, moved |-> <<>>]

\* the message logger.info is given
MovedAssetsMessage(config, movedAssetPaths) ==
    [count |-> Len(movedAssetPaths),
     noun |-> IF Len(movedAssetPaths) > 1 THEN "assets" ELSE "asset",
     paths |-> [i \in 1..Len(movedAssetPaths) |-> movedAssetPaths[i]]]

\* every file on disk
AllFiles == serverFiles \cup clientFiles

\* the files of a set of files that lie under a directory
FilesUnder(files, dir) ==
    {f \in files : \E rel \in {AssetA, AssetB, AssetC, CssRoot, CssShared, ServerBundle} :
                       f = FileIn(dir, rel)}

ServerBuildDir == pathDirname(ReconcileConfig.serverBuildPath)
ClientBuildDir == ReconcileConfig.assetsBuildDirectory

\* the files a server build writes
ServerBuildOutput ==
    {FileIn(ServerBuildDir, rel) : rel \in {AssetA, AssetB, AssetC, CssRoot, CssShared,
                                            ServerBundle}}

\* the files a client build with this manifest has written
ClientBuildOutput(chunks) ==
    {FileIn(ClientBuildDir, AssetPaths(chunks)[i]) : i \in 1..Len(AssetPaths(chunks))}
        \cup {FileIn(ClientBuildDir, FlatMap(ChunkCssOrEmpty, chunks)[i]) :
                 i \in 1..Len(FlatMap(ChunkCssOrEmpty, chunks))}

InitReconcile ==
    /\ viteManifest = <<>>
    /\ call = [fn |-> "none"]
    /\ result = Undefined
    /\ BuildNotStarted
    /\ DevNotStarted
    /\ HmrNotStarted
    /\ HooksNotStarted
    /\ ssrViteManifest = SsrManifest
    /\ clientViteManifest \in ClientManifests
    \* the server build has just written its files; one of them may be gone
    /\ \E gone \in SUBSET ServerBuildOutput :
          /\ Cardinality(gone) <= 1
          /\ serverFiles = ServerBuildOutput \ gone
    \* the client directory may hold a file its manifest does not list
    /\ \E stray \in SUBSET {FileIn(ClientBuildDir, AssetA)} :
          clientFiles = ClientBuildOutput(clientViteManifest) \cup stray
    /\ \E isSsrBuild \in BOOLEAN :
          reconcile = [pc |-> "idle", isSsrBuild |-> isSsrBuild]
    /\ LoadNotStarted

\* the handler without its first check: it goes on whatever the build is
WriteBundleAnyBuild ==
    /\ reconcile.pc = "idle"
    /\ reconcile' =
          [pc |-> "assets", isSsrBuild |-> reconcile.isSsrBuild,
           clientAssetPaths |-> AssetPaths(clientViteManifest),
           ssrAssetPaths |-> AssetPaths(ssrViteManifest),
           queue |-> AssetPaths(ssrViteManifest),
           movedAssetPaths |-> <<>>]
    /\ UNCHANGED <<chunkVars, buildVars, devVars, loadVars, hookVars, fixtureVars, hmrVars, ssrViteManifest, clientViteManifest,
                   serverFiles, clientFiles>>
\* writeBundle.handler is called: nothing to do unless this is the server
\* build; else the manifests are loaded and the asset paths collected
WriteBundle ==
    /\ reconcile.pc = "idle"
    /\ reconcile' =
          IF ~reconcile.isSsrBuild
          THEN [pc |-> "returned", isSsrBuild |-> FALSE]
          ELSE [pc |-> "assets", isSsrBuild |-> TRUE,
                clientAssetPaths |-> AssetPaths(clientViteManifest),
                ssrAssetPaths |-> AssetPaths(ssrViteManifest),
                queue |-> AssetPaths(ssrViteManifest),
                movedAssetPaths |-> <<>>]
    /\ UNCHANGED <<chunkVars, buildVars, devVars, loadVars, hookVars, fixtureVars, hmrVars, ssrViteManifest, clientViteManifest,
                   serverFiles, clientFiles>>

\* one pass of the loop over ssrAssetPaths: the asset is moved or removed
ReconcileAsset ==
    /\ reconcile.pc = "assets"
    /\ reconcile.queue # <<>>
    /\ LET ssrAssetPath == Head(reconcile.queue)
           r == reconcileAsset(AllFiles, reconcile.clientAssetPaths, ServerBuildDir,
                               ClientBuildDir, ssrAssetPath)
       IN  IF r.threw
           THEN /\ reconcile' = [reconcile EXCEPT !.pc = "failed"]
                                   @@ [error |-> r.error, failedOn |-> ssrAssetPath]
                /\ UNCHANGED <<serverFiles, clientFiles>>
           ELSE /\ serverFiles' = FilesUnder(r.value, ServerBuildDir)
                /\ clientFiles' = FilesUnder(r.value, ClientBuildDir)
                /\ reconcile' = [reconcile EXCEPT
                                    !.queue = Tail(@),
                                    !.movedAssetPaths = @ \o r.moved]
    /\ UNCHANGED <<chunkVars, buildVars, devVars, loadVars, hookVars, fixtureVars, hmrVars, ssrViteManifest, clientViteManifest>>

\* the loop is over: the stylesheets of the server build are removed, and
\* the moved assets are logged
RemoveServerCss ==
    /\ reconcile.pc = "assets"
    /\ reconcile.queue = <<>>
    /\ LET ssrCssPaths == CssPaths(ssrViteManifest, clientViteManifest)
       IN  serverFiles' = serverFiles \ {FileIn(ServerBuildDir, ssrCssPaths[i]) :
                                            i \in 1..Len(ssrCssPaths)}
    /\ reconcile' =
          IF reconcile.movedAssetPaths # <<>>
          THEN [reconcile EXCEPT !.pc = "returned"]
                  @@ [logged |-> MovedAssetsMessage(ReconcileConfig,
                                                    reconcile.movedAssetPaths)]
          ELSE [reconcile EXCEPT !.pc = "returned"]
    /\ UNCHANGED <<chunkVars, buildVars, devVars, loadVars, hookVars, fixtureVars, hmrVars, ssrViteManifest, clientViteManifest,
                   clientFiles>>

NextReconcile ==
    \/ WriteBundle
    \/ ReconcileAsset
    \/ RemoveServerCss

SpecReconcile == InitReconcile /\ [][NextReconcile]_vars

---------------------------------------------------------------------------
(* Part 5: handleHotUpdate of remix-hmr-updates *)

\* the files whose change the watcher may report: two route files, a file
\* of the app that is no route, a file of a directory whose name begins as
\* the app directory's does, and a file outside the app directory
WatchedFiles ==
    {pathJoin(AppDirectory, <<"root.tsx">>),
     pathJoin(AppDirectory, <<"routes", "a.tsx">>),
     pathJoin(AppDirectory, <<"utils.ts">>),
     pathJoin(RootDirectory, <<"app-old", "root.tsx">>),
     pathJoin(RootDirectory, <<"vite.config.ts">>)}

\* the modules the bundler finds affected by the change of a file: the
\* module of the file and the modules that import it
AffectedModules(file) ==
    CASE file = pathJoin(AppDirectory, <<"root.tsx">>) -> <<PathString(file)>>
      [] file = pathJoin(AppDirectory, <<"routes", "a.tsx">>) ->
            <<PathString(file), PathString(pathJoin(AppDirectory, <<"root.tsx">>))>>
      [] file = pathJoin(AppDirectory, <<"utils.ts">>) ->
            <<PathString(file), PathString(pathJoin(AppDirectory, <<"routes", "a.tsx">>)),
              PathString(pathJoin(AppDirectory, <<"root.tsx">>))>>
      [] OTHER -> <<>>

\* name.startsWith(prefix), for the names of directories of this model
NameStartsWith(name, prefix) == name = prefix \/ (name = "app-old" /\ prefix = "app")

\* file.startsWith(dir) on the text of two paths
startsWith(file, dir) ==
    /\ Len(file) >= Len(dir)
    /\ \A i \in 1..(Len(dir) - 1) : file[i] = dir[i]
    /\ NameStartsWith(file[Len(dir)], dir[Len(dir)])

\* a lookup by the name of the file alone, whatever directory it is in
getRouteByFileName(config, file) ==
    LET matches == SelectSeq(config.routes,
                             LAMBDA kv : kv.route.file[Len(kv.route.file)] = file[Len(file)])
    IN  IF matches = <<>> THEN <<>> ELSE <<matches[1].route>>
\* getRoute(pluginConfig, file): <<>> for undefined
getRoute(config, file) ==
    IF ~startsWith(file, normalizePath(config.appDirectory)) THEN <<>>
    ELSE LET routePath == normalizePath(pathRelative(config.appDirectory, file))
             matches == SelectSeq(config.routes, LAMBDA kv : kv.route.file = routePath)
         IN  IF matches = <<>> THEN <<>> ELSE <<matches[1].route>>

\* resolveRelativeRouteFilePath(route, pluginConfig)
resolveRelativeRouteFilePath(route, config) ==
    normalizePath(pathJoin(config.appDirectory, route.file))

\* getRouteMetadata(pluginConfig, viteChildCompiler, route)
getRouteMetadata(config, compiler, route, module, failure) ==
    LET exports == getRouteModuleExports(compiler, config, route.file, module, failure)
        routeFilePath == resolveRelativeRouteFilePath(route, config)
    IN  IF exports.threw THEN exports
        ELSE Ok([name \in CopiedRouteProperties \cap DOMAIN route |-> route[name]]
                   @@ [url |-> "/" \o PathString(pathRelative(config.rootDirectory,
                                                              routeFilePath)),
                       module |-> resolveFileUrl(config, routeFilePath) \o "?import",
                       hasAction |-> Includes(exports.value, "action"),
                       hasLoader |-> Includes(exports.value, "loader"),
                       hasErrorBoundary |-> Includes(exports.value, "ErrorBoundary"),
                       imports |-> <<>>])

\* the message handleHotUpdate sends: `route` is <<>> for null
HmrEvent(route) == [type |-> "custom", event |-> "remix:hmr", data |-> [route |-> route]]

\* the route modules on disk while the dev server runs: routes/a.tsx holds
\* a module that cannot be inspected
DevRouteModules ==
    [f \in RouteFiles |->
        IF f = "routes/a.tsx" THEN [ok |-> FALSE, exportNames |-> <<>>]
        ELSE IF f = "root.tsx"
             THEN [ok |-> TRUE, exportNames |-> <<"ErrorBoundary", "default", "loader">>]
             ELSE [ok |-> TRUE, exportNames |-> <<"default", "loader">>]]

InitHmr ==
    /\ viteManifest = <<>>
    /\ call = [fn |-> "none"]
    /\ result = Undefined
    /\ options = DevOptions
    /\ viteChildCompiler = "server"
    /\ routeModules = DevRouteModules
    /\ pluginConfig = <<>>
    /\ buildPc = "idle"
    /\ entry = <<>>
    /\ routes = <<>>
    /\ routeQueue = <<>>
    /\ sourceExports = <<>>
    /\ manifest = <<>>
    /\ error = <<>>
    /\ disk = <<>>
    /\ sha256 = <<>>
    /\ returned = {}
    /\ routesOnDisk = RouteTable
    /\ configVersion = 0
    /\ previousPluginConfig = <<>>
    /\ localsByRequest = <<>>
    /\ moduleGraph = <<>>
    \* one connection, whose requests come one after the other
    /\ requests = [r \in {"r1"} |-> NewRequest(r)]
    /\ invalidateCalls = 0
    /\ middlewareMode = FALSE
    /\ ReconcileNotStarted
    /\ HooksNotStarted
    \* the config hook has cached the config it resolved
    /\ cachedPluginConfig = <<resolveDevPluginConfig(DevOptions, RouteTable)>>
    /\ ws = <<>>
    /\ hotUpdate = [pc |-> "idle"]
    /\ fileChanges = 0
    /\ LoadNotStarted

\* the watcher reports that a file has changed, and the bundler calls
\* handleHotUpdate({ server, file, modules })
FileChanges ==
    /\ hotUpdate.pc \in {"idle", "returned", "threw"}
    /\ fileChanges < MaxFileChanges
    /\ fileChanges' = fileChanges + 1
    /\ \E file \in WatchedFiles :
          hotUpdate' = [pc |-> "resolve", file |-> file,
                        modules |-> AffectedModules(file), sent |-> 0]
    /\ UNCHANGED <<chunkVars, buildVars, devVars, reconcileVars, loadVars, hookVars, fixtureVars, cachedPluginConfig, ws>>

\* a hot update that leaves the cached config as it was
HotUpdateResolveKeepsCache ==
    /\ hotUpdate.pc = "resolve"
    /\ \E ok \in BOOLEAN :
          IF ~ok
          THEN /\ hotUpdate' = [hotUpdate EXCEPT !.pc = "threw"]
                                  @@ [error |-> StepError("resolvePluginConfig")]
               /\ UNCHANGED <<cachedPluginConfig, ws>>
          ELSE LET config == resolveDevPluginConfig(options, routesOnDisk)
                   route == getRoute(config, hotUpdate.file)
               IN  /\ UNCHANGED cachedPluginConfig
                   /\ IF route = <<>>
                      THEN /\ ws' = <<HmrEvent(<<>>)>>
                           /\ hotUpdate' = [hotUpdate EXCEPT !.pc = "returned", !.sent = @ + 1]
                                              @@ [pluginConfig |-> config, route |-> route,
                                                  returned |-> hotUpdate.modules]
                      ELSE /\ UNCHANGED ws
                           /\ hotUpdate' = [hotUpdate EXCEPT !.pc = "metadata"]
                                              @@ [pluginConfig |-> config, route |-> route]
    /\ UNCHANGED <<chunkVars, buildVars, devVars, reconcileVars, loadVars, hookVars, fixtureVars, fileChanges>>
\* let pluginConfig = await resolvePluginConfig(); cachedPluginConfig =
\* pluginConfig; let route = getRoute(pluginConfig, file); with no route the
\* event is sent with null and the modules are returned
HotUpdateResolve ==
    /\ hotUpdate.pc = "resolve"
    /\ \E ok \in BOOLEAN :
          IF ~ok
          THEN /\ hotUpdate' = [hotUpdate EXCEPT !.pc = "threw"]
                                  @@ [error |-> StepError("resolvePluginConfig")]
               /\ UNCHANGED <<cachedPluginConfig, ws>>
          ELSE LET config == resolveDevPluginConfig(options, routesOnDisk)
                   route == getRoute(config, hotUpdate.file)
               IN  /\ cachedPluginConfig' = <<config>>
                   /\ IF route = <<>>
                      THEN /\ ws' = <<HmrEvent(<<>>)>>
                           /\ hotUpdate' = [hotUpdate EXCEPT !.pc = "returned", !.sent = @ + 1]
                                              @@ [pluginConfig |-> config, route |-> route,
                                                  returned |-> hotUpdate.modules]
                      ELSE /\ UNCHANGED ws
                           /\ hotUpdate' = [hotUpdate EXCEPT !.pc = "metadata"]
                                              @@ [pluginConfig |-> config, route |-> route]
    /\ UNCHANGED <<chunkVars, buildVars, devVars, reconcileVars, loadVars, hookVars, fixtureVars, fileChanges>>

\* server.ws.send({ ..., data: { route: await getRouteMetadata(...) } });
\* return modules
HotUpdateSend ==
    /\ hotUpdate.pc = "metadata"
    /\ \E failure \in InspectionFailures :
          LET route == hotUpdate.route[1]
              module == routeModules[PathString(route.file)]
              info == getRouteMetadata(hotUpdate.pluginConfig, viteChildCompiler, route,
                                       module, failure)
          IN  IF info.threw
              THEN /\ hotUpdate' = [hotUpdate EXCEPT !.pc = "threw"]
                                      @@ [error |-> info.error, inspected |-> module]
                   /\ UNCHANGED ws
              ELSE /\ ws' = <<HmrEvent(<<info.value>>)>>
                   /\ hotUpdate' = [hotUpdate EXCEPT !.pc = "returned", !.sent = @ + 1]
                                      @@ [inspected |-> module,
                                          returned |-> hotUpdate.modules]
    /\ UNCHANGED <<chunkVars, buildVars, devVars, reconcileVars, loadVars, hookVars, fixtureVars, cachedPluginConfig,
                   fileChanges>>

\* the request has left stage 1, and the next request of the connection
\* arrives: a new object, which localsByRequest has no entry for
NextRequestArrives ==
    /\ \E r \in DOMAIN requests :
          /\ requests[r].pc \in {"stage2", "error"}
          /\ requests' = [requests EXCEPT ![r] = NewRequest(r)]
          /\ localsByRequest' = [k \in DOMAIN localsByRequest \ {r} |-> localsByRequest[k]]
    /\ UNCHANGED <<chunkVars, buildVars, reconcileVars, loadVars, hookVars, fixtureVars, hmrVars, routesOnDisk, configVersion,
                   previousPluginConfig, moduleGraph, invalidateCalls, middlewareMode>>

NextHmr ==
    \/ ConfigSourceChanges
    \/ FileChanges
    \/ HotUpdateResolve
    \/ HotUpdateSend
    \/ NextRequestArrives
    \/ Stage1Resolve
    \/ Stage1Compare
    \/ Stage1Load
    \/ Stage1Styles

SpecHmr == InitHmr /\ [][NextHmr]_vars

---------------------------------------------------------------------------
(* Part 6: the resolveId hooks of the plugins *)

\* the virtual module ids of the plugin
VirtualIds ==
    {serverEntryId, serverManifestId, browserManifestId, remixReactProxyId, hmrRuntimeId,
     injectHmrRuntimeId}

\* the ids the bundler may ask the hooks for: the virtual ids, the same ids
\* resolved already, as urls, with a query or without the prefix, and ids of
\* files and packages
ImportedIds ==
    VirtualIds
        \cup {VirtualModuleResolve(id) : id \in VirtualIds}
        \cup {"/@id/__x00__" \o id : id \in VirtualIds}
        \cup {id \o "?import" : id \in VirtualIds}
        \cup {"virtual:other", "virtual:", "server-entry", "remix-react-proxy",
              "@remix-run/react", "react", "./root.tsx", "/project/app/root.tsx",
              "/project/app/entry.server.tsx", ""}

\* resolveId of remix-virtual-modules: <<>> for undefined
remixVirtualModulesResolveId(id) ==
    IF Includes(vmods, id) THEN <<VirtualModuleResolve(id)>> ELSE <<>>

\* resolveId of remix-remix-react-proxy
remixReactProxyResolveId(id) ==
    IF id = remixReactProxyId THEN <<VirtualModuleResolve(remixReactProxyId)>> ELSE <<>>

\* resolveId of remix-inject-hmr-runtime
injectHmrRuntimeResolveId(id) ==
    IF id = injectHmrRuntimeId THEN <<VirtualModuleResolve(injectHmrRuntimeId)>> ELSE <<>>

\* a hook that knows no id
hmrRuntimeResolveIdNone(id) == <<>>
\* resolveId of remix-hmr-runtime
hmrRuntimeResolveId(id) ==
    IF id = hmrRuntimeId THEN <<VirtualModuleResolve(hmrRuntimeId)>> ELSE <<>>

\* the plugins that have a resolveId hook, those with enforce: "pre" first
ResolveIdHooks ==
    <<"remix-virtual-modules", "remix-inject-hmr-runtime", "remix-hmr-runtime",
      "remix-remix-react-proxy">>

InitResolveId ==
    /\ viteManifest = <<>>
    /\ call = [fn |-> "none"]
    /\ result = Undefined
    /\ BuildNotStarted
    /\ DevNotStarted
    /\ HmrNotStarted
    /\ ReconcileNotStarted
    /\ resolution = [pc |-> "idle"]
    /\ fixture = [pc |-> "idle"]
    /\ LoadNotStarted

\* the bundler meets an import and asks the hooks, one after the other
BundlerResolves ==
    /\ resolution.pc \in {"idle", "done"}
    /\ \E id \in ImportedIds :
          resolution' = [pc |-> "hooks", id |-> id, hooks |-> ResolveIdHooks,
                         resolved |-> <<>>]
    /\ UNCHANGED <<chunkVars, buildVars, devVars, hmrVars, reconcileVars, loadVars, fixtureVars>>

\* the hook of a plugin has answered: the first answer that is not undefined
\* is the resolved id, and the hooks left are not asked
AfterHook(resolving, answer) ==
    IF answer # <<>>
    THEN [resolving EXCEPT !.pc = "done", !.resolved = answer, !.hooks = Tail(@)]
    ELSE [resolving EXCEPT !.hooks = Tail(@)]

\* the bundler calls resolveId of remix-virtual-modules
RemixVirtualModulesResolveId ==
    /\ resolution.pc = "hooks"
    /\ resolution.hooks # <<>>
    /\ Head(resolution.hooks) = "remix-virtual-modules"
    /\ resolution' = AfterHook(resolution, remixVirtualModulesResolveId(resolution.id))
    /\ UNCHANGED <<chunkVars, buildVars, devVars, hmrVars, reconcileVars, loadVars, fixtureVars>>

\* the bundler calls resolveId of remix-inject-hmr-runtime
InjectHmrRuntimeResolveId ==
    /\ resolution.pc = "hooks"
    /\ resolution.hooks # <<>>
    /\ Head(resolution.hooks) = "remix-inject-hmr-runtime"
    /\ resolution' = AfterHook(resolution, injectHmrRuntimeResolveId(resolution.id))
    /\ UNCHANGED <<chunkVars, buildVars, devVars, hmrVars, reconcileVars, loadVars, fixtureVars>>

\* the bundler calls resolveId of remix-hmr-runtime
HmrRuntimeResolveId ==
    /\ resolution.pc = "hooks"
    /\ resolution.hooks # <<>>
    /\ Head(resolution.hooks) = "remix-hmr-runtime"
    /\ resolution' = AfterHook(resolution, hmrRuntimeResolveId(resolution.id))
    /\ UNCHANGED <<chunkVars, buildVars, devVars, hmrVars, reconcileVars, loadVars, fixtureVars>>

\* the bundler calls resolveId of remix-remix-react-proxy
RemixReactProxyResolveId ==
    /\ resolution.pc = "hooks"
    /\ resolution.hooks # <<>>
    /\ Head(resolution.hooks) = "remix-remix-react-proxy"
    /\ resolution' = AfterHook(resolution, remixReactProxyResolveId(resolution.id))
    /\ UNCHANGED <<chunkVars, buildVars, devVars, hmrVars, reconcileVars, loadVars, fixtureVars>>

\* no hook of the plugin has resolved the id: the bundler resolves it itself
BundlerResolvesItself ==
    /\ resolution.pc = "hooks"
    /\ resolution.hooks = <<>>
    /\ resolution' = [resolution EXCEPT !.pc = "done"]
    /\ UNCHANGED <<chunkVars, buildVars, devVars, hmrVars, reconcileVars, loadVars, fixtureVars>>

NextResolveId ==
    \/ BundlerResolves
    \/ RemixVirtualModulesResolveId
    \/ InjectHmrRuntimeResolveId
    \/ HmrRuntimeResolveId
    \/ RemixReactProxyResolveId
    \/ BundlerResolvesItself

SpecResolveId == InitResolveId /\ [][NextResolveId]_vars

---------------------------------------------------------------------------
(* Part 7: createFixtureProject of the integration helpers *)

\* the text a config file refers to the injected config with
InjectedConfigPlaceholder == "global.INJECTED_FIXTURE_REMIX_CONFIG"

\* the remix.config.js of the template, a text in pieces
TemplateConfigFile ==
    <<"module.exports = { ignoredRouteFiles: [\"**/.*\"], ...", InjectedConfigPlaceholder,
      " };">>

\* the files a test may give with init.files
FixtureFiles ==
    {[f \in {"app/root.tsx"} |-> <<"export default function Root() {}">>],
     [f \in {"app/root.tsx", "remix.config.js"} |->
        IF f = "app/root.tsx" THEN <<"export default function Root() {}">>
        ELSE <<"module.exports = { appDirectory: \"src\" };">>],
     [f \in {"remix.config.js"} |->
        <<"export default { ...", InjectedConfigPlaceholder, ", future: { ...",
          InjectedConfigPlaceholder, ".future } };">>]}

\* the values of init.config: undefined, {} and an object with a property
FixtureConfigs == {<<>>, <<[x \in {} |-> ""]>>, <<[appDirectory |-> "src"]>>}

\* serializeJavaScript(config)
serializeJavaScript(config) ==
    IF DOMAIN config = {} THEN "{}"
    ELSE "{\"appDirectory\":" \o JsonString(config.appDirectory) \o "}"

\* contents.includes(text)
contentsInclude(contents, text) == \E i \in 1..Len(contents) : contents[i] = text

\* contents.replace(text, replacement): the first occurrence is replaced
contentsReplace(contents, text, replacement) ==
    IF ~contentsInclude(contents, text) THEN contents
    ELSE LET first == CHOOSE i \in 1..Len(contents) :
                         /\ contents[i] = text
                         /\ \A j \in 1..(i - 1) : contents[j] # text
         IN  [contents EXCEPT ![first] = replacement]

\* the error for a config given twice (the message with ' for the backquotes)
FixtureConfigError ==
    Error("Cannot provide a 'config' fixture option and a 'remix.config.js' file\n"
          \o "at the same time, unless the 'remix.config.js' file contains a reference\n"
          \o "to the 'global.INJECTED_FIXTURE_REMIX_CONFIG' placeholder so it can\n"
          \o "accept the injected config values. Either move all config values into\n"
          \o "'remix.config.js' file, or spread the  injected config,\n"
          \o "e.g. 'export default { ...global.INJECTED_FIXTURE_REMIX_CONFIG }'.")

\* a check that does not look at the file
configGivenTwiceWhateverTheFile(config, contents) == config # <<>>
\* init.config && !contents.includes("global.INJECTED_FIXTURE_REMIX_CONFIG")
configGivenTwice(config, contents) ==
    config # <<>> /\ ~contentsInclude(contents, InjectedConfigPlaceholder)

\* resolveBin.sync("vite")
viteBin == "node_modules/vite/bin/vite.js"

remixBin == "node_modules/@remix-run/dev/dist/cli.js"

\* the commands of the Vite compiler, the server build first
BuildCommandsSsrFirst(compiler, sourcemap) ==
    IF compiler = "vite"
    THEN <<<<viteBin, "build", "--ssr">>, <<viteBin, "build">>>>
    ELSE <<<<remixBin, "build">> \o (IF sourcemap THEN <<"--sourcemap">> ELSE <<>>)>>
\* build: the commands of the compiler
BuildCommands(compiler, sourcemap) ==
    IF compiler = "vite"
    THEN <<<<viteBin, "build">>, <<viteBin, "build", "--ssr">>>>
    ELSE <<<<remixBin, "build">> \o (IF sourcemap THEN <<"--sourcemap">> ELSE <<>>)>>

InitFixture ==
    /\ viteManifest = <<>>
    /\ call = [fn |-> "none"]
    /\ result = Undefined
    /\ BuildNotStarted
    /\ DevNotStarted
    /\ HmrNotStarted
    /\ ReconcileNotStarted
    /\ resolution = [pc |-> "idle"]
    /\ fixture = [pc |-> "idle"]
    /\ LoadNotStarted

\* createFixtureProject(init, mode): the template is copied to the project
\* directory. init.buildStdio says whether a stream was given; buildStdio
\* keeps what was done to that stream, in order
CreateFixtureProject ==
    /\ fixture.pc = "idle"
    /\ \E config \in FixtureConfigs, files \in FixtureFiles,
          compiler \in {Undefined, "remix", "vite"}, sourcemap \in BOOLEAN,
          buildStdio \in BOOLEAN :
          fixture' = [pc |-> "files",
                      init |-> [config |-> config, files |-> files, compiler |-> compiler,
                                sourcemap |-> sourcemap, buildStdio |-> buildStdio],
                      compiler |-> IF compiler = Undefined THEN "remix" ELSE compiler,
                      project |-> [f \in {"remix.config.js"} |-> TemplateConfigFile],
                      spawned |-> <<>>, commands |-> <<>>, error |-> <<>>,
                      buildStdio |-> <<>>]
    /\ UNCHANGED <<chunkVars, buildVars, devVars, hmrVars, reconcileVars, loadVars, hookVars>>

\* await writeTestFiles(init, projectDir)
WriteTestFiles ==
    /\ fixture.pc = "files"
    /\ fixture' =
          [fixture EXCEPT
              !.pc = "config",
              !.project = [f \in DOMAIN @ \cup DOMAIN fixture.init.files |->
                              IF f \in DOMAIN fixture.init.files
                              THEN fixture.init.files[f] ELSE @[f]]]
    /\ UNCHANGED <<chunkVars, buildVars, devVars, hmrVars, reconcileVars, loadVars, hookVars>>

\* the config file is read; with a config given twice the call throws, else
\* the placeholder is replaced by the config, the file is written and build
\* is called
InjectConfig ==
    /\ fixture.pc = "config"
    /\ LET contents == fixture.project["remix.config.js"]
       IN  fixture' =
             IF configGivenTwice(fixture.init.config, contents)
             THEN [fixture EXCEPT !.pc = "failed", !.error = <<FixtureConfigError>>]
             ELSE [fixture EXCEPT
                      !.pc = "build",
                      !.project["remix.config.js"] =
                          contentsReplace(contents, InjectedConfigPlaceholder,
                                          serializeJavaScript(
                                             IF fixture.init.config = <<>>
                                             THEN [x \in {} |-> ""]
                                             ELSE fixture.init.config[1])),
                      !.commands = BuildCommands(fixture.compiler, fixture.init.sourcemap)]
    /\ UNCHANGED <<chunkVars, buildVars, devVars, hmrVars, reconcileVars, loadVars, hookVars>>

\* what spawnSync may return: the command ran and exited with status 0 or
\* 1, or was ended by a signal (status null), or did not run to its end
\* (error), with its output kept, or could not be started, with stdout and
\* stderr null
SpawnResults ==
    {[error |-> <<>>, status |-> <<0>>, output |-> TRUE],
     [error |-> <<>>, status |-> <<1>>, output |-> TRUE],
     [error |-> <<>>, status |-> <<>>, output |-> TRUE],
     [error |-> <<Error("spawnSync node ENOBUFS")>>, status |-> <<>>, output |-> TRUE],
     [error |-> <<Error("spawnSync node ENOENT")>>, status |-> <<>>, output |-> FALSE]}

\* buildSpawn.error || buildSpawn.status
buildFailed(buildSpawn) ==
    \/ buildSpawn.error # <<>>
    \/ buildSpawn.status # <<>> /\ buildSpawn.status # <<0>>

\* buildSpawn.stdout.toString("utf-8") when stdout is null
TypeErrorToString ==
    [name |-> "TypeError",
     message |-> "Cannot read properties of null (reading 'toString')"]

\* commands.forEach: one command is run with spawnSync("node", buildArgs, ...)
\* to its end; its output is written to buildStdio, which is then ended; a
\* command that failed throws, and so ends the loop
SpawnBuild ==
    /\ fixture.pc = "build"
    /\ fixture.commands # <<>>
    /\ \E buildSpawn \in SpawnResults :
          LET buildArgs == Head(fixture.commands)
              spawnedNow == Append(fixture.spawned,
                                   [args |-> buildArgs, result |-> buildSpawn])
              written == IF fixture.init.buildStdio
                         THEN fixture.buildStdio \o <<"write", "write", "end">>
                         ELSE fixture.buildStdio
          IN  fixture' =
                IF ~buildSpawn.output /\ (fixture.init.buildStdio \/ buildFailed(buildSpawn))
                THEN [fixture EXCEPT !.pc = "failed", !.spawned = spawnedNow,
                                     !.error = <<TypeErrorToString>>]
                ELSE IF buildFailed(buildSpawn)
                THEN [fixture EXCEPT
                         !.pc = "failed", !.spawned = spawnedNow, !.buildStdio = written,
                         !.error = IF buildSpawn.error # <<>> THEN buildSpawn.error
                                   ELSE <<Error("Build failed, check the output above")>>]
                ELSE [fixture EXCEPT !.spawned = spawnedNow, !.buildStdio = written,
                                     !.commands = Tail(@)]
    /\ UNCHANGED <<chunkVars, buildVars, devVars, hmrVars, reconcileVars, loadVars, hookVars>>

\* return projectDir
FixtureProjectCreated ==
    /\ fixture.pc = "build"
    /\ fixture.commands = <<>>
    /\ fixture' = [fixture EXCEPT !.pc = "returned"]
    /\ UNCHANGED <<chunkVars, buildVars, devVars, hmrVars, reconcileVars, loadVars, hookVars>>

NextFixture ==
    \/ CreateFixtureProject
    \/ WriteTestFiles
    \/ InjectConfig
    \/ SpawnBuild
    \/ FixtureProjectCreated

SpecFixture == InitFixture /\ [][NextFixture]_vars

---------------------------------------------------------------------------
(* Part 8: getDevManifest, step by step *)

\* VirtualModule.url(id)
VirtualModuleUrl(id) == "/@id/__x00__" \o id

\* the characters of the file names of this model
Characters(name) ==
    CASE name = "root.tsx" -> <<"r", "o", "o", "t", ".", "t", "s", "x">>
      [] name = "_index.tsx" -> <<"_", "i", "n", "d", "e", "x", ".", "t", "s", "x">>
      [] name = "a.tsx" -> <<"a", ".", "t", "s", "x">>
      [] name = "docs.mdx" -> <<"d", "o", "c", "s", ".", "m", "d", "x">>
      [] name = "legacy.CJS" -> <<"l", "e", "g", "a", "c", "y", ".", "C", "J", "S">>
      [] name = "api.mts" -> <<"a", "p", "i", ".", "m", "t", "s">>
      [] name = "data.json" -> <<"d", "a", "t", "a", ".", "j", "s", "o", "n">>
      [] name = "tsx" -> <<"t", "s", "x">>

\* a letter without its case, for the letters the pattern names
LowerCase(c) ==
    CASE c = "C" -> "c" [] c = "M" -> "m" [] c = "J" -> "j" [] c = "T" -> "t"
      [] c = "S" -> "s" [] c = "X" -> "x" [] OTHER -> c

\* a test that takes every extension for one of a JS file
isJsFileAlways(filePath) == TRUE
\* isJsFile: /\.[cm]?[jt]sx?$/i.test(filePath)
isJsFile(filePath) ==
    LET chars == Characters(filePath[Len(filePath)])
    IN  \E dot \in 1..Len(chars) :
           /\ chars[dot] = "."
           /\ LET rest == [i \in 1..(Len(chars) - dot) |-> LowerCase(chars[dot + i])]
                  core == IF rest # <<>> /\ rest[1] \in {"c", "m"} THEN Tail(rest) ELSE rest
              IN  /\ Len(core) \in {2, 3}
                  /\ core[1] \in {"j", "t"}
                  /\ core[2] = "s"
                  /\ Len(core) = 3 => core[3] = "x"

\* routes whose files are not all JS or TS files
ContentRoutes ==
    <<[key |-> "routes/docs",
       route |-> [id |-> "routes/docs", parentId |-> "root", path |-> "docs",
                  file |-> <<"routes", "docs.mdx">>]],
      [key |-> "routes/legacy",
       route |-> [id |-> "routes/legacy", parentId |-> "root", path |-> "legacy",
                  file |-> <<"routes", "legacy.CJS">>]],
      [key |-> "routes/api",
       route |-> [id |-> "routes/api", parentId |-> "root", path |-> "api",
                  file |-> <<"routes", "api.mts">>]],
      [key |-> "routes/data",
       route |-> [id |-> "routes/data", parentId |-> "root", path |-> "data",
                  file |-> <<"routes", "data.json">>]],
      [key |-> "routes/tsx",
       route |-> [id |-> "routes/tsx", parentId |-> "root", path |-> "tsx",
                  file |-> <<"routes", "tsx">>]]>>

\* the route tables resolveConfig may find on disk while the dev server runs
DevManifestRouteTables ==
    {RouteTable, SubSeq(RouteTable, 1, 2) \o ContentRoutes,
     SubSeq(RouteTable, 1, 1) \o SubSeq(ContentRoutes, 1, 2)}

\* what the route files hold
DevManifestRouteModules ==
    {[f \in RouteFiles \cup {PathString(ContentRoutes[i].route.file) :
                                i \in 1..Len(ContentRoutes)} |->
        IF f = "routes/a.tsx" THEN a
        ELSE IF f = "root.tsx"
             THEN [ok |-> TRUE, exportNames |-> <<"ErrorBoundary", "default", "loader">>]
             ELSE IF f = "routes/docs.mdx"
                  THEN [ok |-> TRUE, exportNames |-> <<"default">>]
                  ELSE [ok |-> TRUE, exportNames |-> <<"action", "default", "loader">>]] :
     a \in {[ok |-> FALSE, exportNames |-> <<>>],
            [ok |-> TRUE, exportNames |-> <<"default", "loader">>]}}

\* String(Math.random())
DevManifestVersions == {"0.25", "0.75"}

\* a manifest on disk, of a build before the dev server was started
DiskBefore ==
    {<<>>,
     writeFileSafe(<<>>, "/project/build/client/assets/manifest-0000.js",
                   "window.__remixManifest={};")}

\* the module of a route in the dev manifest
DevRouteModule(config, route) ==
    resolveFileUrl(config, resolveRelativeRouteFilePath(route, config))
        \o (IF isJsFile(route.file) THEN "" ELSE "?import")

\* the manifest getDevManifest returns
DevManifest(config, routeEntries, version) ==
    [version |-> version,
     url |-> VirtualModuleUrl(browserManifestId),
     hmr |-> [runtime |-> VirtualModuleUrl(injectHmrRuntimeId)],
     entry |-> [module |-> resolveFileUrl(config, config.entryClientFilePath),
                imports |-> <<>>],
     routes |-> routeEntries]

InitDevManifest ==
    /\ viteManifest = <<>>
    /\ call = [fn |-> "none"]
    /\ result = Undefined
    /\ options = DevOptions
    /\ viteChildCompiler = "server"
    /\ routeModules \in DevManifestRouteModules
    /\ pluginConfig = <<>>
    /\ buildPc = "idle"
    /\ entry = <<>>
    /\ routes = <<>>
    /\ routeQueue = <<>>
    /\ sourceExports = <<>>
    /\ manifest = <<>>
    /\ error = <<>>
    /\ disk \in DiskBefore
    /\ sha256 = <<>>
    /\ returned = {}
    /\ routesOnDisk \in DevManifestRouteTables
    /\ configVersion = 0
    /\ previousPluginConfig = <<>>
    /\ localsByRequest = <<>>
    /\ moduleGraph = <<>>
    /\ requests = <<>>
    /\ invalidateCalls = 0
    /\ middlewareMode = FALSE
    /\ ReconcileNotStarted
    /\ HooksNotStarted
    /\ HmrNotStarted
    /\ LoadNotStarted

\* route files are added to the app directory or removed from it
RouteFilesChange ==
    /\ configVersion < MaxConfigChanges
    /\ routesOnDisk' \in DevManifestRouteTables \ {routesOnDisk}
    /\ configVersion' = configVersion + 1
    /\ UNCHANGED <<chunkVars, buildVars, reconcileVars, loadVars, hookVars, fixtureVars, hmrVars, previousPluginConfig,
                   localsByRequest, moduleGraph, requests, invalidateCalls, middlewareMode>>

\* getDevManifest is called: let pluginConfig = await resolvePluginConfig();
\* let routes = {}
GetDevManifest ==
    /\ Stopped
    /\ pluginConfig' = resolveDevPluginConfig(options, routesOnDisk)
    /\ routeQueue' = pluginConfig'.routes
    /\ routes' = <<>>
    /\ sourceExports' = <<>>
    /\ manifest' = <<>>
    /\ error' = <<>>
    /\ buildPc' = "devRoutes"
    /\ UNCHANGED <<devVars, reconcileVars, loadVars, hookVars, fixtureVars, hmrVars, chunkVars, options, viteChildCompiler, routeModules, entry, disk,
                   sha256, returned>>

\* for (let [key, route] of Object.entries(pluginConfig.routes)):
\* let sourceExports = await getRouteModuleExports(...); routes[key] = {...}
DevManifestRoute ==
    /\ buildPc = "devRoutes"
    /\ routeQueue # <<>>
    /\ \E failure \in InspectionFailures :
        LET key == Head(routeQueue).key
            route == Head(routeQueue).route
            r == getRouteModuleExports(viteChildCompiler, pluginConfig, route.file,
                                       routeModules[PathString(route.file)], failure)
        IN  IF r.threw
            THEN /\ buildPc' = "failed"
                 /\ error' = r.error
                 /\ UNCHANGED <<sourceExports, routes, routeQueue>>
            ELSE /\ sourceExports' = r.value
                 /\ routes' = Append(routes,
                                     [key |-> key,
                                      value |-> RouteManifestEntry(
                                                   route, r.value,
                                                   [module |-> DevRouteModule(pluginConfig,
                                                                              route),
                                                    imports |-> <<>>])])
                 /\ routeQueue' = Tail(routeQueue)
                 /\ UNCHANGED <<buildPc, error>>
    /\ UNCHANGED <<devVars, reconcileVars, loadVars, hookVars, fixtureVars, hmrVars, chunkVars, options, viteChildCompiler, routeModules, pluginConfig, entry,
                   manifest, disk, sha256, returned>>

\* the loop is over: return { version, url, hmr, entry, routes }
DevManifestReturned ==
    /\ buildPc = "devRoutes"
    /\ routeQueue = <<>>
    /\ \E version \in DevManifestVersions :
          manifest' = DevManifest(pluginConfig, routes, version)
    /\ buildPc' = "done"
    /\ UNCHANGED <<devVars, reconcileVars, loadVars, hookVars, fixtureVars, hmrVars, chunkVars, options, viteChildCompiler, routeModules, pluginConfig, entry,
                   routes, routeQueue, sourceExports, error, disk, sha256, returned>>

NextDevManifest ==
    \/ RouteFilesChange
    \/ GetDevManifest
    \/ DevManifestRoute
    \/ DevManifestReturned

SpecDevManifest == InitDevManifest /\ [][NextDevManifest]_vars

---------------------------------------------------------------------------
(* Part 9: the load hook of remix-virtual-modules *)

\* the ids the bundler may ask the hook to load: the three of the switch, an
\* id that was not resolved, and a file
LoadIds ==
    {VirtualModuleResolve(serverEntryId), VirtualModuleResolve(serverManifestId),
     VirtualModuleResolve(browserManifestId), serverManifestId, "/project/app/root.tsx"}

\* `prefix${jsesc(manifest, { es6: true })};`: the text of a module, with
\* the literal jsesc writes kept as the value it denotes
ManifestModuleCode(prefix, mf) == [prefix |-> prefix, literal |-> mf, suffix |-> ";"]

InitLoad ==
    /\ viteManifest \in BuildManifests
    /\ call = [fn |-> "none"]
    /\ result = Undefined
    /\ options = DevOptions
    /\ viteChildCompiler = "null"
    /\ routeModules \in DevManifestRouteModules
    /\ pluginConfig = <<>>
    /\ buildPc = "idle"
    /\ entry = <<>>
    /\ routes = <<>>
    /\ routeQueue = <<>>
    /\ sourceExports = <<>>
    /\ manifest = <<>>
    /\ error = <<>>
    /\ disk = <<>>
    /\ sha256 = <<>>
    /\ returned = {}
    /\ routesOnDisk = RouteTable
    /\ configVersion = 0
    /\ previousPluginConfig = <<>>
    /\ localsByRequest = <<>>
    /\ moduleGraph = <<>>
    /\ requests = <<>>
    /\ invalidateCalls = 0
    /\ middlewareMode = FALSE
    /\ ReconcileNotStarted
    /\ HooksNotStarted
    /\ HmrNotStarted
    /\ viteCommand \in {"build", "serve"}
    /\ resolvedViteConfig = <<>>
    /\ ssrBuildContext = <<>>
    /\ load = [pc |-> "idle"]

\* case VirtualModule.resolve(serverEntryId): return await getServerEntry()
LoadServerEntry ==
    /\ load.pc = "idle"
    /\ ssrBuildContext # <<>>
    /\ load' = [pc |-> "returned", id |-> VirtualModuleResolve(serverEntryId),
                result |-> <<ServerEntryModule(resolveDevPluginConfig(options, routesOnDisk),
                                               configVersion)>>]
    /\ UNCHANGED <<chunkVars, buildVars, devVars, hmrVars, reconcileVars, hookVars, fixtureVars,
                   viteCommand, resolvedViteConfig, ssrBuildContext>>

\* case VirtualModule.resolve(serverManifestId): ssrBuildContext.getManifest()
\* or getDevManifest() is called, and runs to its first await
LoadServerManifest ==
    /\ load.pc = "idle"
    /\ ssrBuildContext # <<>>
    /\ load' = [pc |-> "manifest", id |-> VirtualModuleResolve(serverManifestId),
                prefix |-> "export default "]
    /\ IF ssrBuildContext[1].isSsrBuild
       THEN /\ pluginConfig' = resolvePluginConfig(options)
            /\ buildPc' = "loadViteManifest"
            /\ entry' = <<>>
            /\ routeQueue' = <<>>
       ELSE /\ pluginConfig' = resolveDevPluginConfig(options, routesOnDisk)
            /\ buildPc' = "devRoutes"
            /\ routeQueue' = pluginConfig'.routes
            /\ UNCHANGED entry
    /\ routes' = <<>>
    /\ sourceExports' = <<>>
    /\ manifest' = <<>>
    /\ error' = <<>>
    /\ UNCHANGED <<chunkVars, devVars, hmrVars, reconcileVars, hookVars, fixtureVars, options,
                   viteChildCompiler, routeModules, disk, sha256, returned, viteCommand,
                   resolvedViteConfig, ssrBuildContext>>

\* case VirtualModule.resolve(browserManifestId): under the build command it
\* throws; else getDevManifest() is called, and runs to its first await
LoadBrowserManifest ==
    /\ load.pc = "idle"
    /\ ssrBuildContext # <<>>
    /\ IF viteCommand = "build"
       THEN /\ load' = [pc |-> "rejected", id |-> VirtualModuleResolve(browserManifestId),
                        error |-> Error("This module only exists in development")]
            /\ UNCHANGED <<pluginConfig, buildPc, routeQueue, routes, sourceExports, manifest,
                           error>>
       ELSE /\ load' = [pc |-> "manifest", id |-> VirtualModuleResolve(browserManifestId),
                        prefix |-> "window.__remixManifest="]
            /\ pluginConfig' = resolveDevPluginConfig(options, routesOnDisk)
            /\ buildPc' = "devRoutes"
            /\ routeQueue' = pluginConfig'.routes
            /\ routes' = <<>>
            /\ sourceExports' = <<>>
            /\ manifest' = <<>>
            /\ error' = <<>>
    /\ UNCHANGED <<chunkVars, devVars, hmrVars, reconcileVars, hookVars, fixtureVars, options,
                   viteChildCompiler, routeModules, entry, disk, sha256, returned, viteCommand,
                   resolvedViteConfig, ssrBuildContext>>

\* an id that is none of the cases: the hook returns undefined
LoadOtherId ==
    /\ load.pc = "idle"
    /\ ssrBuildContext # <<>>
    /\ \E id \in LoadIds \ {VirtualModuleResolve(serverEntryId),
                            VirtualModuleResolve(serverManifestId),
                            VirtualModuleResolve(browserManifestId)} :
          load' = [pc |-> "returned", id |-> id, result |-> <<>>]
    /\ UNCHANGED <<chunkVars, buildVars, devVars, hmrVars, reconcileVars, hookVars, fixtureVars,
                   viteCommand, resolvedViteConfig, ssrBuildContext>>

\* the manifest awaited is there, or the call that was to give it rejected:
\* the hook returns the code of the module, or rejects
LoadManifestReturned ==
    /\ load.pc = "manifest"
    /\ buildPc \in {"done", "failed"}
    /\ load' = IF buildPc = "done"
               THEN [pc |-> "returned", id |-> load.id,
                     result |-> <<ManifestModuleCode(load.prefix, manifest)>>]
               ELSE [pc |-> "rejected", id |-> load.id, error |-> error]
    /\ UNCHANGED <<chunkVars, buildVars, devVars, hmrVars, reconcileVars, hookVars, fixtureVars,
                   viteCommand, resolvedViteConfig, ssrBuildContext>>

NextLoad ==
    \/ ConfigResolved
    \/ LoadServerEntry
    \/ LoadServerManifest
    \/ LoadBrowserManifest
    \/ LoadOtherId
    \/ LoadViteManifest
    \/ ResolveEntry
    \/ InspectRoute
    \/ RouteAssets
    \/ Fingerprint
    \/ WriteManifest
    \/ DevManifestRoute
    \/ DevManifestReturned
    \/ LoadManifestReturned

SpecLoad == InitLoad /\ [][NextLoad]_vars

---------------------------------------------------------------------------
(* The import graph of a manifest, stated without the walk *)


\* the chunks of the manifest a chunk imports directly
Successors(vm, chunk) ==
    SeqToSet(ImportsOrEmpty(vm, chunk)) \cap DOMAIN vm

\* the least set holding S and closed under Successors
RECURSIVE Closure(_, _)
Closure(vm, S) ==
    LET next == S \cup UNION {Successors(vm, k) : k \in S}
    IN  IF next = S THEN S ELSE Closure(vm, next)

\* the chunks reachable from a chunk, itself included
Reachable(vm, chunk) == Closure(vm, {chunk})

\* the chunks a chunk imports, directly or through other chunks
TransitiveImports(vm, chunk) == Closure(vm, Successors(vm, chunk))

\* some chunk reachable from the entry imports itself through other chunks
CycleReachable(vm, entryKey) ==
    \E k \in Reachable(vm, entryKey) : k \in TransitiveImports(vm, k)

\* every import key of every chunk reachable from the entry is in the manifest
ImportKeysExist(vm, entryKey) ==
    \A k \in Reachable(vm, entryKey) :
        SeqToSet(ImportsOrEmpty(vm, k)) \subseteq DOMAIN vm

\* the place of x in a list that holds it
IndexOf(list, x) == CHOOSE i \in 1..Len(list) : list[i] = x

\* the chunk at the end of the chain of first imports that starts at a chunk
RECURSIVE FirstLeaf(_, _)
FirstLeaf(vm, chunk) ==
    IF ImportsOrEmpty(vm, chunk) = <<>> THEN chunk
    ELSE FirstLeaf(vm, ImportsOrEmpty(vm, chunk)[1])

WalkCalled == call.fn = "resolveDependantChunks"
AssetPathsCalled == call.fn = "resolveBuildAssetPaths"

\* the manifest key resolveBuildAssetPaths was asked for
CalledKey == PathString(pathRelative(RootDirectory, call.file))

---------------------------------------------------------------------------
(* Claims C1..C5 *)

\* C1 (as claimed): for a manifest with a cycle of imports reachable from the
\* entry chunk, resolveDependantChunks returns, and returns every reachable
\* chunk exactly once.
C1_CyclicWalkReturnsEachChunkOnce ==
    (WalkCalled /\ CycleReachable(viteManifest, call.entry)) =>
        /\ ~result.threw
        /\ NoDuplicates(result.value)
        /\ SeqToSet(result.value) = Reachable(viteManifest, call.entry)

\* C2: for an acyclic manifest whose import keys all exist,
\* resolveDependantChunks returns exactly the chunks reachable from the entry
\* (the entry included), none of them twice.
C2_AcyclicWalkIsReachableSet ==
    (/\ WalkCalled
     /\ ~CycleReachable(viteManifest, call.entry)
     /\ ImportKeysExist(viteManifest, call.entry)) =>
        /\ ~result.threw
        /\ NoDuplicates(result.value)
        /\ SeqToSet(result.value) = Reachable(viteManifest, call.entry)

\* C2 witness: the walk returned for an entry that reaches one chunk along two
\* import paths (directly, and through another chunk it imports).
C2_DiamondWalked ==
    /\ WalkCalled
    /\ ~result.threw
    /\ \E x, y \in Successors(viteManifest, call.entry) :
          x # y /\ y \in Successors(viteManifest, x)

\* C3: a list resolveDependantChunks returns is in post-order: every chunk
\* comes after all the chunks it imports (directly or transitively), the
\* entry chunk is last, and the first chunk is the one the imports lists'
\* order makes the walk finish first.
C3_WalkIsPostOrder ==
    (WalkCalled /\ ~result.threw) =>
        LET list == result.value
        IN  /\ list # <<>>
            /\ list[Len(list)] = call.entry
            /\ list[1] = FirstLeaf(viteManifest, call.entry)
            /\ \A i \in 1..Len(list) :
                 \A k \in TransitiveImports(viteManifest, list[i]) :
                    /\ k \in SeqToSet(list)
                    /\ IndexOf(list, k) < i

\* C3 witness: the walk returned a list of three chunks, the entry importing
\* the other two.
C3_ThreeChunksWalked ==
    /\ WalkCalled
    /\ ~result.threw
    /\ Len(result.value) = 3
    /\ Cardinality(Successors(viteManifest, call.entry)) = 2

\* the stylesheets of the chunks reachable from the called entry
ReachableCss ==
    UNION {SeqToSet(CssOrEmpty(viteManifest, k)) : k \in Reachable(viteManifest, CalledKey)}

\* C4: the css list resolveBuildAssetPaths returns holds no URL twice and is
\* exactly the stylesheets of the chunks reachable from the entry, each with
\* publicPath in front; a stylesheet reached along two import paths is
\* listed once.
C4_CssListDeduplicated ==
    (AssetPathsCalled /\ ~result.threw) =>
        /\ NoDuplicates(result.value.css)
        /\ SeqToSet(result.value.css) = {call.publicPath \o s : s \in ReachableCss}

\* C4 witness: asset paths were returned for an entry that reaches a chunk
\* with a stylesheet along two import paths, and another reachable chunk
\* lists the same stylesheet.
C4_SharedCssReachedTwice ==
    /\ AssetPathsCalled
    /\ ~result.threw
    /\ \E x, y \in Successors(viteManifest, CalledKey) :
          /\ x # y
          /\ y \in Successors(viteManifest, x)
          /\ \E s \in SeqToSet(CssOrEmpty(viteManifest, y)) :
                s \in SeqToSet(CssOrEmpty(viteManifest, x))

\* C5: the imports list resolveBuildAssetPaths returns holds no URL twice,
\* does not hold the entry's own module URL, and is exactly publicPath + file
\* of every chunk transitively imported from the entry chunk.
C5_ImportsListExact ==
    (AssetPathsCalled /\ ~result.threw) =>
        /\ NoDuplicates(result.value.imports)
        /\ result.value.module \notin SeqToSet(result.value.imports)
        /\ result.value.module = call.publicPath \o viteManifest[CalledKey].file
        /\ SeqToSet(result.value.imports) =
              {call.publicPath \o viteManifest[k].file :
                  k \in TransitiveImports(viteManifest, CalledKey)}

\* C5 witness: asset paths were returned for an entry whose imports reach a
\* chunk both directly and through another chunk.
C5_TransitiveImportsListed ==
    /\ AssetPathsCalled
    /\ ~result.threw
    /\ Len(result.value.imports) = 2
    /\ \E x \in Successors(viteManifest, CalledKey) :
          Successors(viteManifest, x) \cap Successors(viteManifest, CalledKey) # {}

---------------------------------------------------------------------------
(* Claims C6..C10 *)

\* the quoted keys of the chunk manifest, in the order of the manifest
KnownKeysListed ==
    JoinStrings(MapSeq(LAMBDA key : "\"" \o key \o "\"",
                       SelectSeq(AllKeyOrder, LAMBDA key : key \in DOMAIN viteManifest)),
                ", ")

\* C6: whenever the root-relative path of the file resolveBuildAssetPaths is
\* asked for is not a key of the chunk manifest, the call throws an error
\* whose message names that key and lists every key of the manifest; walk is
\* not called once and no asset paths are returned.
C6_MissingEntryFails ==
    (AssetPathsCalled /\ CalledKey \notin DOMAIN viteManifest) =>
        /\ result.threw
        /\ result.error.message =
              "No manifest entry found for \"" \o CalledKey
                  \o "\". Known manifest keys: " \o KnownKeysListed
        /\ result.calls = 0
        /\ "value" \notin DOMAIN result

\* C6 witness: a route file without a chunk was asked for, after the entry
\* and an earlier route had their asset paths resolved
C6_RouteWithoutChunk ==
    /\ AssetPathsCalled
    /\ CalledKey \notin DOMAIN viteManifest
    /\ DOMAIN viteManifest # {}
    /\ Len(routes) >= 1
    /\ buildPc = "failed"

\* C7: two runs of createBuildManifest that return the same entry and the
\* same routes return the same version, whatever else differs between them.
C7_VersionDependsOnEntryAndRoutesOnly ==
    \A a, b \in returned :
        (a.manifest.entry = b.manifest.entry /\ a.manifest.routes = b.manifest.routes)
            => a.manifest.version = b.manifest.version

\* C7 witness: two runs returned the same entry and routes from different
\* build directories
C7_SameContentTwoDirectories ==
    \E a, b \in returned :
        /\ a.manifest.entry = b.manifest.entry
        /\ a.manifest.routes = b.manifest.routes
        /\ a.pluginConfig.assetsBuildDirectory # b.pluginConfig.assetsBuildDirectory

\* the file the manifest of this version is published in
ArtifactFile(version) ==
    PathString(pluginConfig.assetsBuildDirectory)
        \o "/assets/manifest-" \o HexText(version) \o ".js"

\* C8: when createBuildManifest has returned, version is 8 hexadecimal
\* characters, url is publicPath + "assets/manifest-" + version + ".js", and
\* the file assetsBuildDirectory/assets/manifest-<version>.js holds the
\* assignment of the returned manifest to window.__remixManifest.
C8_ManifestShapeAndArtifact ==
    buildPc = "done" =>
        /\ Len(manifest.version) = 8
        /\ \A i \in 1..Len(manifest.version) : manifest.version[i] \in SeqToSet(HexChars)
        /\ manifest.url = pluginConfig.publicPath \o "assets/manifest-"
                              \o HexText(manifest.version) \o ".js"
        /\ DOMAIN manifest = {"entry", "routes", "url", "version"}
        /\ ArtifactFile(manifest.version) \in DOMAIN disk
        /\ disk[ArtifactFile(manifest.version)] =
              "window.__remixManifest=" \o StringifyManifest(manifest) \o ";"

\* C8 witness: a manifest was returned under a public path other than "/",
\* after an earlier run had written an artifact of its own
C8_ManifestReturned ==
    /\ buildPc = "done"
    /\ pluginConfig.publicPath = "/static/"
    /\ Cardinality(DOMAIN disk) >= 2

\* the chunk-manifest key of a file of the app directory
AppKey(file) == "app/" \o file

\* something stands in the way of the build: no child compiler, a route
\* module that cannot be inspected, or an entry or route without a chunk
BuildCannotSucceed ==
    \/ viteChildCompiler = "null"
    \/ \E f \in RouteFiles : ~routeModules[f].ok
    \/ AppKey("entry.client.tsx") \notin DOMAIN viteManifest
    \/ \E f \in RouteFiles : AppKey(f) \notin DOMAIN viteManifest

\* one entry has been built for every route of the route table
EveryRouteProcessed ==
    /\ Len(routes) = Len(RouteTable)
    /\ routeQueue = <<>>

\* C9: when the child compiler is missing, a route module cannot be
\* inspected, or the entry or a route has no chunk, createBuildManifest never
\* gets to return and writes nothing; a step writes a file only when every
\* route has been processed.
C9_NoPartialManifest ==
    /\ [](BuildCannotSucceed => buildPc \notin {"write", "done"})
    /\ [][BuildCannotSucceed => disk' = disk]_vars
    /\ [][disk' # disk => EveryRouteProcessed /\ buildPc' = "done"]_vars

\* C9 witness: a run failed on a later route, after an earlier route had been
\* processed, and nothing has been written
C9_FailedAfterFirstRoute ==
    /\ buildPc = "failed"
    /\ Len(routes) >= 1
    /\ viteChildCompiler # "null"
    /\ disk = <<>>

\* the export names of the module of a route
InspectedExports(route) == SeqToSet(routeModules[PathString(route.file)].exportNames)

\* C10: the manifest returned has one routes entry per route of the route
\* table, under the route's key and in the table's order; the entry has the
\* route's id, parentId, path, index and caseSensitive where the route has
\* them and not otherwise, and hasAction, hasLoader, hasErrorBoundary are
\* true exactly when the module exports "action", "loader", "ErrorBoundary".
C10_RoutesEntryPerRoute ==
    buildPc = "done" =>
        /\ Len(manifest.routes) = Len(RouteTable)
        /\ \A i \in 1..Len(RouteTable) :
              LET route == RouteTable[i].route
                  built == manifest.routes[i].value
              IN  /\ manifest.routes[i].key = RouteTable[i].key
                  /\ \A name \in {"id", "parentId", "path", "index", "caseSensitive"} :
                        /\ name \in DOMAIN built <=> name \in DOMAIN route
                        /\ name \in DOMAIN route => built[name] = route[name]
                  /\ built.hasAction <=> "action" \in InspectedExports(route)
                  /\ built.hasLoader <=> "loader" \in InspectedExports(route)
                  /\ built.hasErrorBoundary <=> "ErrorBoundary" \in InspectedExports(route)

\* C10 witness: a manifest was returned for a root module with a loader and an
\* error boundary and a route module with an action
C10_ManifestWithCapabilities ==
    /\ buildPc = "done"
    /\ "loader" \in InspectedExports(RouteTable[1].route)
    /\ "action" \in InspectedExports(RouteTable[3].route)
    /\ manifest.routes[1].value.hasErrorBoundary
    /\ ~manifest.routes[3].value.hasLoader

---------------------------------------------------------------------------
(* Claims C11..C17: the dev request pipeline *)

\* stage 1 has recorded no locals for the request
NoLocals(r) == r \notin DOMAIN localsByRequest

MissingLocalsError == [name |-> "Error", message |-> "No Remix locals found for request"]

\* the downstream request handler has not been called for the request
NotHandled(r) == requests[r].handle = <<>> /\ requests[r].pc # "handled"

\* C11 (as claimed): a request that reaches stage 2 with no locals recorded
\* for it fails with the error "No Remix locals found for request", passed
\* to next, and the request handler is not called for it.
C11_MissingLocalsIsTheError ==
    \A r \in Requests :
        NoLocals(r) =>
            /\ NotHandled(r)
            /\ requests[r].failedIn = "stage2" => requests[r].next = <<MissingLocalsError>>

\* C11 (amended): a request that reaches stage 2 with no locals recorded for
\* it fails and the request handler is not called for it; the error passed
\* to next is "No Remix locals found for request", unless the config
\* resolution that stage 2 starts with has failed, and then it is that error.
C11_MissingLocalsFails ==
    \A r \in Requests :
        NoLocals(r) =>
            /\ NotHandled(r)
            /\ requests[r].failedIn = "stage2" =>
                  /\ requests[r].pc = "error"
                  /\ requests[r].next =
                        IF requests[r].stage2Config = <<>>
                        THEN <<StepError("resolvePluginConfig")>>
                        ELSE <<MissingLocalsError>>

\* C11 witness: stage 2 resolved the config for a request without locals and
\* passed the missing-locals error to next
C11_FailedForMissingLocals ==
    \E r \in DOMAIN requests :
        /\ NoLocals(r)
        /\ requests[r].stage2Config # <<>>
        /\ requests[r].pc = "error"
        /\ requests[r].next = <<MissingLocalsError>>

\* C12: whatever the interleaving of the requests, the build and the critical
\* styles stage 2 hands to the request handler for a request are the ones
\* stage 1 computed for that request.
C12_LocalsOfTheSameRequest ==
    \A r \in Requests :
        requests[r].handle # <<>> =>
            /\ <<requests[r].handle[1].build>> = requests[r].build
            /\ requests[r].handle[1].criticalCss = requests[r].criticalCss

\* C12 witness: two requests were handled whose builds and critical styles
\* differ, the second having finished stage 1 before the first reached the
\* handler
C12_TwoRequestsHandledApart ==
    /\ \A r \in Requests : requests[r].pc = "handled"
    /\ requests["r1"].build # requests["r2"].build
    /\ requests["r1"].criticalCss # requests["r2"].criticalCss

\* stage 1 compares the snapshot of request r in this step
Compares(r) == requests[r].pc = "compare" /\ requests'[r].pc # "compare"

\* the snapshot of request r differs from the one observed before
SnapshotDiffers(r) ==
    IF previousPluginConfig = <<>> THEN TRUE
    ELSE previousPluginConfig[1] # requests[r].pluginConfig

\* the module of this id is not in the graph, or is there invalidated
InvalidatedIfPresent(graph, id) ==
    IF VirtualModuleResolve(id) \in DOMAIN graph
    THEN graph[VirtualModuleResolve(id)].loaded = <<>>
    ELSE TRUE

\* C13: when the snapshot stage 1 resolved for a request differs from the
\* snapshot observed before, the virtual modules of vmods are invalidated in
\* the step that compares them, before the server build of that request is
\* loaded, and the snapshot becomes the one observed.
C13_ChangeInvalidatesBeforeLoad ==
    [][\A r \in Requests :
          (Compares(r) /\ SnapshotDiffers(r)) =>
              /\ \A i \in 1..Len(vmods) : InvalidatedIfPresent(moduleGraph', vmods[i])
              /\ previousPluginConfig' = <<requests[r].pluginConfig>>
              /\ requests'[r].pc = "load"
              /\ requests'[r].build = <<>>]_vars

\* C13 witness: a request found the route table changed since the snapshot
\* another request had left, invalidated the modules that request had
\* loaded, and is about to load its build
C13_ChangeDetected ==
    \E r, q \in Requests :
        /\ requests[r].pc = "load"
        /\ requests[q].build # <<>>
        /\ requests[q].pluginConfig # requests[r].pluginConfig
        /\ previousPluginConfig = <<requests[r].pluginConfig>>
        /\ invalidateCalls >= 2
        /\ moduleGraph[VirtualModuleResolve(serverEntryId)].loaded = <<>>

\* C14: when the snapshot stage 1 resolved for a request is the snapshot
\* observed before, the step that compares them invalidates nothing: the
\* count of invalidateModule calls and the module graph stay as they are.
C14_SameSnapshotInvalidatesNothing ==
    [][\A r \in Requests :
          (Compares(r) /\ ~SnapshotDiffers(r)) =>
              /\ invalidateCalls' = invalidateCalls
              /\ moduleGraph' = moduleGraph
              /\ previousPluginConfig' = previousPluginConfig]_vars

\* C14 witness: a second request compared the same snapshot as a request
\* handled before it, with the server entry loaded in the graph, and no call
\* of invalidateModule has been made
C14_SecondRequestSameConfig ==
    \E r, q \in Requests :
        /\ requests[q].pc = "handled"
        /\ requests[r].pc = "load"
        /\ requests[r].pluginConfig = requests[q].pluginConfig
        /\ previousPluginConfig = <<requests[r].pluginConfig>>
        /\ moduleGraph[VirtualModuleResolve(serverEntryId)].loaded # <<>>
        /\ invalidateCalls = 0

\* the six virtual modules the plugins resolve and load
RegisteredVirtualModuleIds ==
    <<serverEntryId, serverManifestId, browserManifestId,
      remixReactProxyId, hmrRuntimeId, injectHmrRuntimeId>>

\* C15 (as claimed): when stage 1 finds the snapshot changed, each of the six
\* virtual modules that is in the module graph is invalidated.
C15_ChangeInvalidatesAllSix ==
    [][\A r \in Requests :
          (Compares(r) /\ SnapshotDiffers(r)) =>
              \A i \in 1..Len(RegisteredVirtualModuleIds) :
                  InvalidatedIfPresent(moduleGraph', RegisteredVirtualModuleIds[i])]_vars

\* C16 (as claimed): whatever the interleaving of requests and changes of the
\* config source, the server build stage 1 loads for a request was not
\* generated under a config older than the snapshot the request resolved.
C16_BuildNotOlderThanSnapshot ==
    \A r \in Requests :
        requests[r].build # <<>> =>
            requests[r].build[1].generatedUnder >= requests[r].resolvedAt

\* C17: a request for which a step of stage 1 failed has that step's error
\* passed to next, once; no locals are recorded for it, the request handler
\* is not called for it, and nothing more happens to it.
C17_Stage1FailureIsFinal ==
    /\ [](\A r \in Requests :
            requests[r].failedIn = "stage1" =>
                /\ requests[r].pc = "error"
                /\ requests[r].next \in {<<StepError("resolvePluginConfig")>>,
                                         <<StepError("ssrLoadModule")>>,
                                         <<StepError("getStylesForUrl")>>}
                /\ NoLocals(r)
                /\ NotHandled(r))
    /\ [][\A r \in Requests :
            requests[r].failedIn = "stage1" => requests'[r] = requests[r]]_vars

\* C17 witness: the critical styles of a request could not be computed, after
\* its build had been loaded, while the other request was handled
C17_StylesFailed ==
    \E r, q \in Requests :
        /\ requests[r].failedIn = "stage1"
        /\ requests[r].next = <<StepError("getStylesForUrl")>>
        /\ requests[r].build # <<>>
        /\ requests[q].pc = "handled"

---------------------------------------------------------------------------
(* Claims about the assets of the server build *)

\* the handler ran on a server build and returned
ReconcileCompleted == reconcile.pc = "returned" /\ reconcile.isSsrBuild

\* the asset paths and stylesheet paths that the server manifest lists
ListedAssets == {AssetPaths(ssrViteManifest)[i] : i \in 1..Len(AssetPaths(ssrViteManifest))}
ListedCss ==
    {FlatMap(ChunkCssOrEmpty, ssrViteManifest)[i] :
        i \in 1..Len(FlatMap(ChunkCssOrEmpty, ssrViteManifest))}

\* C18: once writeBundle has completed on a server build, every asset that
\* the server manifest lists exists under the client assets directory and
\* does not exist under the server build directory.
C18_AssetsInClientDirectoryOnly ==
    ReconcileCompleted =>
        \A asset \in ListedAssets :
            /\ FileIn(ClientBuildDir, asset) \in AllFiles
            /\ FileIn(ServerBuildDir, asset) \notin AllFiles

\* the handler completed after moving one asset and removing another
C18_MovedAndRemoved ==
    /\ ReconcileCompleted
    /\ reconcile.movedAssetPaths # <<>>
    /\ \E asset \in ListedAssets : Includes(reconcile.clientAssetPaths, asset)

\* C19: once writeBundle has completed on a server build, no stylesheet that
\* the server manifest lists exists under the server build directory, whether
\* or not the client manifest lists it.
C19_NoServerCss ==
    ReconcileCompleted =>
        \A css \in ListedCss : FileIn(ServerBuildDir, css) \notin AllFiles

\* the handler completed with a stylesheet only the server manifest lists
C19_CssOnlyInServerManifest ==
    /\ ReconcileCompleted
    /\ \E css \in ListedCss :
          /\ ~Includes(FlatMap(ChunkCssOrEmpty, clientViteManifest), css)
          /\ FileIn(ServerBuildDir, css) \notin AllFiles

\* the handler has ended, by returning or by throwing
ReconcileEnded == reconcile.isSsrBuild /\ reconcile.pc \in {"returned", "failed"}

\* C20: each file is handled on its own: when the handler has ended, every
\* listed asset other than one whose move failed is out of the server build
\* directory, and so is every listed stylesheet.
C20_BestEffortPerFile ==
    ReconcileEnded =>
        /\ \A asset \in ListedAssets :
              \/ reconcile.pc = "failed" /\ reconcile.failedOn = asset
              \/ FileIn(ServerBuildDir, asset) \notin AllFiles
        /\ \A css \in ListedCss : FileIn(ServerBuildDir, css) \notin AllFiles

\* C21: when the build is not the server build, writeBundle reads no
\* manifest and moves or removes no file of either output directory.
C21_OtherBuildTouchesNothing ==
    [][~reconcile.isSsrBuild =>
          /\ serverFiles' = serverFiles
          /\ clientFiles' = clientFiles
          /\ DOMAIN reconcile' = {"pc", "isSsrBuild"}]_vars

\* the handler returned at once on a build that is not the server build
C21_ReturnedOnClientBuild ==
    /\ reconcile.pc = "returned"
    /\ ~reconcile.isSsrBuild
    /\ \E asset \in ListedAssets : FileIn(ServerBuildDir, asset) \in AllFiles

---------------------------------------------------------------------------
(* Claims about the hot updates *)

\* the call of handleHotUpdate has ended, by returning or by throwing
HotUpdateEnded == hotUpdate.pc \in {"returned", "threw"}

\* the file lies under the app directory
UnderAppDirectory(file) ==
    /\ Len(file) > Len(AppDirectory)
    /\ SubSeq(file, 1, Len(AppDirectory)) = AppDirectory

\* the routes of the config whose file is the changed file, taken relative
\* to the app directory
RoutesOfFile(config, file) ==
    {config.routes[i].route : i \in {k \in 1..Len(config.routes) :
        /\ UnderAppDirectory(file)
        /\ config.routes[k].route.file = SubSeq(file, Len(AppDirectory) + 1, Len(file))}}

\* the event the change of the file calls for under the config
ExpectedEvent(config, file) ==
    IF RoutesOfFile(config, file) = {} THEN HmrEvent(<<>>)
    ELSE LET route == CHOOSE route \in RoutesOfFile(config, file) : TRUE
         IN  HmrEvent(<<getRouteMetadata(config, viteChildCompiler, route,
                                         routeModules[PathString(route.file)],
                                         "transform").value>>)

C23_MetadataFailureIsolated ==
    (HotUpdateEnded /\ "route" \in DOMAIN hotUpdate /\ hotUpdate.route # <<>>) =>
        /\ hotUpdate.pc = "returned"
        /\ hotUpdate.returned = hotUpdate.modules

\* C28: when stage 1 compares a config that the hot update handler has
\* cached already and that differs from the snapshot stage 1 observed last,
\* it takes the config as the new snapshot and invalidates every module of
\* vmods in the graph; no step of handleHotUpdate changes the snapshot.
C28_ChangeCachedByHotUpdateIsDetected ==
    [][/\ \A r \in DOMAIN requests :
             (/\ requests[r].pc = "compare"
              /\ requests'[r].pc = "load"
              /\ cachedPluginConfig = <<requests[r].pluginConfig>>
              /\ StringifyConfig(requests[r].pluginConfig)
                    # StringifyPrevious(previousPluginConfig))
             => /\ previousPluginConfig' = <<requests[r].pluginConfig>>
                /\ \A i \in 1..Len(vmods) :
                      VirtualModuleResolve(vmods[i]) \in DOMAIN moduleGraph =>
                          moduleGraph'[VirtualModuleResolve(vmods[i])].loaded = <<>>
       /\ hotUpdate' # hotUpdate => previousPluginConfig' = previousPluginConfig]_vars

\* stage 1 has just invalidated the server entry for a config that a hot
\* update had cached before
C28_DetectedAfterHotUpdate ==
    \E r \in DOMAIN requests :
        /\ requests[r].pc = "load"
        /\ fileChanges > 0
        /\ requests[r].pluginConfig # <<>>
        /\ requests[r].pluginConfig.routes # RouteTable
        /\ cachedPluginConfig = <<requests[r].pluginConfig>>
        /\ previousPluginConfig = <<requests[r].pluginConfig>>
        /\ VirtualModuleResolve(serverEntryId) \in DOMAIN moduleGraph
        /\ moduleGraph[VirtualModuleResolve(serverEntryId)].loaded = <<>>

\* C30: what handleHotUpdate returns is the list of modules it was given,
\* and once it has resolved the config, and so before it sends the event,
\* cachedPluginConfig is the config it resolved.
C30_ModulesUnchangedAndConfigCached ==
    /\ [](hotUpdate.pc = "returned" => hotUpdate.returned = AffectedModules(hotUpdate.file))
    /\ [](hotUpdate.pc \in {"metadata", "returned"} =>
             cachedPluginConfig = <<hotUpdate.pluginConfig>>)
    /\ [][(hotUpdate.pc = "resolve" /\ hotUpdate'.pc \in {"metadata", "returned"}) =>
             cachedPluginConfig' = <<resolveDevPluginConfig(options, routesOnDisk)>>]_vars

\* a hot update has returned after the config source had changed
C30_ReturnedWithNewConfig ==
    /\ hotUpdate.pc = "returned"
    /\ hotUpdate.modules # <<>>
    /\ hotUpdate.pluginConfig.routes # RouteTable

---------------------------------------------------------------------------
(* Claims about the middleware chain *)

\* stage 2 has run for the request: it is past the config resolution, or
\* it has failed there or later
Stage2HasRun(r) ==
    requests[r].pc \in {"locals", "handled"} \/ requests[r].failedIn = "stage2"

\* C27: with the middlewares called in the order of the chain, every request
\* stage 2 runs for has locals, the ones stage 1 recorded for that request,
\* and no request fails with "No Remix locals found for request".
C27_Stage2FindsLocals ==
    \A r \in Requests :
        Stage2HasRun(r) =>
            /\ ~NoLocals(r)
            /\ localsByRequest[r] = [build |-> requests[r].build[1],
                                     criticalCss |-> requests[r].criticalCss]
            /\ requests[r].failedIn = "stage2" => requests[r].next # <<MissingLocalsError>>

\* a request went through both stages and another failed in stage 2
C27_HandledAndFailedInStage2 ==
    /\ \E r \in Requests : requests[r].pc = "handled"
    /\ \E r \in Requests : requests[r].failedIn = "stage2"

\* C29: in middleware mode stage 2 never runs and the request handler is
\* never called; a request stage 1 has passed on has locals, and when its
\* response has a locals object, __remixDevCriticalCss there is the critical
\* styles of the request's locals; a response without one is left as it was.
C29_MiddlewareModeStopsAfterStage1 ==
    middlewareMode =>
        \A r \in Requests :
            /\ NotHandled(r)
            /\ ~Stage2HasRun(r)
            /\ requests[r].pc = "stage2" =>
                  /\ ~NoLocals(r)
                  /\ localsByRequest[r].criticalCss = requests[r].criticalCss
                  /\ IF "locals" \in DOMAIN requests[r].res
                     THEN requests[r].res.locals.__remixDevCriticalCss
                             = localsByRequest[r].criticalCss
                     ELSE requests[r].res = RequestRes(r)

\* in middleware mode both requests were passed on by stage 1
C29_PassedOnInMiddlewareMode ==
    /\ middlewareMode
    /\ \A r \in Requests : requests[r].pc = "stage2"
    /\ \E r \in Requests : "locals" \in DOMAIN requests[r].res

---------------------------------------------------------------------------
(* Claims about the resolveId hooks *)

\* C24: the resolveId hooks of the plugin resolve an id exactly when it is
\* one of the six virtual module ids, and then to the resolved form of that
\* id; for every other id every hook returns undefined.
C24_ResolvesTheSixIdsOnly ==
    resolution.pc = "done" =>
        resolution.resolved =
            IF Includes(RegisteredVirtualModuleIds, resolution.id)
            THEN <<VirtualModuleResolve(resolution.id)>>
            ELSE <<>>

\* the hot-reload runtime has been resolved, and so has no id before it
C24_HmrRuntimeResolved ==
    /\ resolution.pc = "done"
    /\ resolution.id = hmrRuntimeId
    /\ resolution.resolved # <<>>

---------------------------------------------------------------------------
(* Claims about the fixture project *)

\* the remix.config.js of the project once the files of the test are written
FixtureConfigFile ==
    IF "remix.config.js" \in DOMAIN fixture.init.files
    THEN fixture.init.files["remix.config.js"]
    ELSE TemplateConfigFile

\* C25: createFixtureProject fails with the config error exactly when
\* init.config is given and the config file has no placeholder, and then no
\* build command has been started.
C25_ConfigErrorBeforeAnyBuild ==
    fixture.pc \in {"build", "failed", "returned"} =>
        LET ambiguous == /\ fixture.init.config # <<>>
                         /\ \A i \in 1..Len(FixtureConfigFile) :
                               FixtureConfigFile[i] # InjectedConfigPlaceholder
        IN  /\ (fixture.pc = "failed" /\ fixture.error = <<FixtureConfigError>>) <=> ambiguous
            /\ ambiguous => fixture.spawned = <<>>

\* the call failed for a config given with a file that has no placeholder
C25_FailedForConfigGivenTwice ==
    /\ fixture.pc = "failed"
    /\ fixture.error = <<FixtureConfigError>>
    /\ fixture.init.config # <<>>
    /\ "remix.config.js" \in DOMAIN fixture.init.files

---------------------------------------------------------------------------
(* Claims about the dev manifest *)

\* the names of the route files of the model that are JS or TS files
JsOrTsFileNames == {"root.tsx", "_index.tsx", "a.tsx", "legacy.CJS", "api.mts"}

\* the url the dev server serves a route file of the app directory under
LiveRouteUrl(route) ==
    "/app/" \o PathString(route.file)
        \o (IF route.file[Len(route.file)] \in JsOrTsFileNames THEN "" ELSE "?import")

\* C26: getDevManifest writes nothing to disk and never calls
\* resolveBuildAssetPaths; a call starts from the config resolved from what
\* is on disk then, and the manifest it returns has one entry per route of
\* that config, whose module is the url of the route file on the dev server,
\* with "?import" exactly for a file that is not a JS or TS file, and whose
\* imports are empty.
C26_DevManifestIsLive ==
    /\ [][/\ disk' = disk
          /\ call' = call
          /\ (buildPc # "devRoutes" /\ buildPc' = "devRoutes") =>
                pluginConfig' = resolveDevPluginConfig(DevOptions, routesOnDisk)]_vars
    /\ [](buildPc = "done" =>
            /\ Len(manifest.routes) = Len(pluginConfig.routes)
            /\ \A i \in 1..Len(manifest.routes) :
                  /\ manifest.routes[i].key = pluginConfig.routes[i].key
                  /\ manifest.routes[i].value.module = LiveRouteUrl(pluginConfig.routes[i].route)
                  /\ manifest.routes[i].value.imports = <<>>
            /\ manifest.entry.imports = <<>>)

\* a manifest returned after the route files changed, with a route of an
\* MDX file and one of a JS file, next to a manifest of an earlier build
C26_ManifestWithMdxRoute ==
    /\ buildPc = "done"
    /\ configVersion > 0
    /\ disk # <<>>
    /\ \E i, j \in 1..Len(manifest.routes) :
          /\ manifest.routes[i].value.module = "/app/routes/docs.mdx?import"
          /\ manifest.routes[j].value.module = "/app/routes/legacy.CJS"

---------------------------------------------------------------------------
(* Claims about import keys the manifest does not have *)

\* C36: when a chunk reachable from the chunk of the file lists an import
\* key the chunk manifest does not have, resolveBuildAssetPaths returns no
\* asset paths: it throws what walk throws, the TypeError of reading
\* `imports` of undefined, or, where the imports also form a cycle, the
\* RangeError of the call stack.
C36_DanglingImportFails ==
    (/\ AssetPathsCalled
     /\ CalledKey \in DOMAIN viteManifest
     /\ ~ImportKeysExist(viteManifest, CalledKey)) =>
        /\ result.threw
        /\ "value" \notin DOMAIN result
        /\ \/ result.error = TypeErrorImports
           \/ /\ CycleReachable(viteManifest, CalledKey)
              /\ result.error = RangeErrorStack

\* asset paths were asked for a file whose chunk imports a chunk that lists
\* the key no chunk has, in a manifest without a cycle
C36_DanglingKeyBehindAnImport ==
    /\ AssetPathsCalled
    /\ CalledKey \in DOMAIN viteManifest
    /\ ~CycleReachable(viteManifest, CalledKey)
    /\ ~Includes(ImportsOrEmpty(viteManifest, CalledKey), DanglingKey)
    /\ \E k \in TransitiveImports(viteManifest, CalledKey) :
          Includes(ImportsOrEmpty(viteManifest, k), DanglingKey)
    /\ result.threw
    /\ result.error = TypeErrorImports

---------------------------------------------------------------------------
(* Claims about the client directory during writeBundle *)

\* C34: no step of writeBundle.handler takes a file out of the client
\* directory or moves a file onto one that is there: a file that appears in
\* the client directory is the asset just moved, which was not there and has
\* left the server directory, and every file that disappears is a file of
\* the server directory.
C34_ClientFilesOnlyGainMovedAssets ==
    [][LET moved == IF "movedAssetPaths" \in DOMAIN reconcile
                    THEN reconcile.movedAssetPaths ELSE <<>>
           movedAfter == IF "movedAssetPaths" \in DOMAIN reconcile'
                         THEN reconcile'.movedAssetPaths ELSE <<>>
       IN  /\ clientFiles \subseteq clientFiles'
           /\ (AllFiles \ (serverFiles' \cup clientFiles')) \subseteq ServerBuildOutput
           /\ IF Len(movedAfter) > Len(moved)
              THEN LET dest == movedAfter[Len(movedAfter)]
                       ssrAssetPath == Head(reconcile.queue)
                   IN  /\ dest = FileIn(ClientBuildDir, ssrAssetPath)
                       /\ dest \notin clientFiles
                       /\ clientFiles' = clientFiles \cup {dest}
                       /\ FileIn(ServerBuildDir, ssrAssetPath) \in serverFiles \ serverFiles'
              ELSE clientFiles' = clientFiles]_vars

\* the handler returned after it moved an asset into a client directory
\* that held other files, one of them an asset the server build has as well
C34_MovedNextToClientFiles ==
    /\ reconcile.pc = "returned"
    /\ reconcile.isSsrBuild
    /\ reconcile.movedAssetPaths # <<>>
    /\ FileIn(ClientBuildDir, AssetB) \in clientFiles
    /\ ~Includes(reconcile.movedAssetPaths, FileIn(ClientBuildDir, AssetB))
    /\ FileIn(ServerBuildDir, AssetB) \notin serverFiles

---------------------------------------------------------------------------
(* Claims about the calls of next *)

\* the calls of next the first middleware made for a request
Stage1NextCalls(r) == SelectSeq(requests[r].nextCalls, LAMBDA c : c.by = "stage1")

\* C35: the first middleware calls next once for a request and no more:
\* not before it is done, then either next() with the locals of the request
\* stored, or next(error) with the error of the step that failed.
C35_Stage1CallsNextOnce ==
    \A r \in DOMAIN requests :
        LET calls == Stage1NextCalls(r)
        IN  IF requests[r].pc \in {"arrived", "compare", "load", "styles"}
            THEN calls = <<>>
            ELSE /\ Len(calls) = 1
                 /\ IF requests[r].failedIn = "stage1"
                    THEN /\ calls[1].arguments # <<>>
                         /\ calls[1].arguments[1] \in
                               {StepError("resolvePluginConfig"), StepError("ssrLoadModule"),
                                StepError("getStylesForUrl")}
                    ELSE /\ calls[1].arguments = <<>>
                         /\ r \in DOMAIN localsByRequest

\* the first middleware has passed one request on and failed for another
C35_OnePassedOnOneFailed ==
    \E r, q \in DOMAIN requests :
        /\ Stage1NextCalls(r) = <<NextCall("stage1", <<>>)>>
        /\ r \in DOMAIN localsByRequest
        /\ Stage1NextCalls(q) = <<NextCall("stage1", <<StepError("ssrLoadModule")>>)>>
        /\ requests[q].pc = "error"

---------------------------------------------------------------------------
(* Claims about the build commands of the fixture project *)

ClientBuildArgs == <<viteBin, "build">>
SsrBuildArgs == <<viteBin, "build", "--ssr">>

\* C32: with the Vite compiler the client build is run first and the SSR
\* build second, once the first has ended; when the client build ends with
\* an error or with a status other than 0, the SSR build is not run and
\* createFixtureProject fails.
C32_ClientBuildThenSsrBuild ==
    (fixture.pc \in {"build", "failed", "returned"} /\ fixture.compiler = "vite") =>
        /\ Len(fixture.spawned) <= 2
        /\ Len(fixture.spawned) >= 1 => fixture.spawned[1].args = ClientBuildArgs
        /\ Len(fixture.spawned) = 2 =>
              /\ fixture.spawned[2].args = SsrBuildArgs
              /\ fixture.spawned[1].result.error = <<>>
              /\ fixture.spawned[1].result.status \in {<<>>, <<0>>}
        /\ (/\ Len(fixture.spawned) >= 1
            /\ \/ fixture.spawned[1].result.error # <<>>
               \/ fixture.spawned[1].result.status = <<1>>) =>
              /\ Len(fixture.spawned) = 1
              /\ fixture.pc = "failed"
        /\ fixture.pc = "returned" => Len(fixture.spawned) = 2

\* the client build of a Vite project ended with status 1
C32_ClientBuildFailed ==
    /\ fixture.pc = "failed"
    /\ fixture.compiler = "vite"
    /\ Len(fixture.spawned) = 1
    /\ fixture.spawned[1].result.status = <<1>>
    /\ fixture.error = <<Error("Build failed, check the output above")>>

\* C33: buildStdio is not written to once it has been ended.
C33_NoWriteAfterEnd ==
    fixture.pc \in {"build", "failed", "returned"} =>
        \A i, j \in 1..Len(fixture.buildStdio) :
            (i < j /\ fixture.buildStdio[i] = "end") => fixture.buildStdio[j] # "write"

---------------------------------------------------------------------------
(* Claims about the manifest modules *)

\* the run is the SSR build of the build command
SsrBuildUnderBuildCommand ==
    /\ resolvedViteConfig # <<>>
    /\ resolvedViteConfig[1].build.ssr
    /\ viteCommand = "build"

\* C31: the server manifest module is made of the manifest
\* createBuildManifest returns, fingerprinted and written to disk, when the
\* run is the SSR build of the build command, and of the dev manifest in
\* every other run, with nothing written; under the build command the load
\* of the browser manifest module rejects with "This module only exists in
\* development", and no manifest is made for it.
C31_ManifestOfTheRun ==
    /\ (load.pc = "returned" /\ load.id = VirtualModuleResolve(serverManifestId)) =>
          LET mf == load.result[1].literal
          IN  IF SsrBuildUnderBuildCommand
              THEN /\ [manifest |-> mf, pluginConfig |-> pluginConfig] \in returned
                   /\ "hmr" \notin DOMAIN mf
                   /\ PathString(pathJoin(pluginConfig.assetsBuildDirectory,
                                          ManifestPath(mf.version))) \in DOMAIN disk
              ELSE /\ "hmr" \in DOMAIN mf
                   /\ mf.version \in DevManifestVersions
                   /\ mf.url = VirtualModuleUrl(browserManifestId)
                   /\ returned = {}
                   /\ disk = <<>>
    /\ (load.pc \in {"manifest", "rejected"}
            /\ load.id = VirtualModuleResolve(serverManifestId)) =>
          IF SsrBuildUnderBuildCommand
          THEN buildPc \in {"loadViteManifest", "entry", "routes", "routeAssets", "write",
                            "done", "failed"}
          ELSE buildPc \in {"devRoutes", "done", "failed"} /\ disk = <<>>
    /\ (load.pc # "idle" /\ load.id = VirtualModuleResolve(browserManifestId)
            /\ viteCommand = "build") =>
          /\ load.pc = "rejected"
          /\ load.error = Error("This module only exists in development")
          /\ buildPc = "idle"
          /\ manifest = <<>>

\* the server manifest module was loaded in the SSR build
C31_ServerManifestOfSsrBuild ==
    /\ load.pc = "returned"
    /\ load.id = VirtualModuleResolve(serverManifestId)
    /\ SsrBuildUnderBuildCommand
    /\ load.result[1].literal = manifest
    /\ disk # <<>>

====
